---- MODULE Spec2Model ----
(***************************************************************************)
(* Build-state subsystem of the tangram build server: the build_children   *)
(* table and its writer (add_build_child), the tailing children stream     *)
(* (try_get_build_children_local), the build status machine and the        *)
(* local-first / remote-fallback resolver (try_get_build).                 *)
(***************************************************************************)
EXTENDS Integers, Sequences, FiniteSets, TLC

VARIABLES
    builds,          \* the builds table: known build id -> row
    build_children,  \* the build_children table: set of (build, position, child) rows
    committed,       \* per build, the children in the order their inserts committed
    now,             \* the wall clock
    last,            \* the last writer call and what it returned
    messenger,       \* whether the messenger accepts a publish ("up") or fails it ("down")
    subs,            \* messages pending on the reader's two subscriptions
    reader,          \* the children stream: its arguments, State and position in the code
    emitted,         \* the chunks the stream has yielded, in order
    remotes,         \* the configured remotes, in order, each a server's tables
    requests,        \* the requests sent to remotes, in order
    database,        \* the store back-end: "sqlite" or "postgres"
    getter,          \* a try_get_build call: its position in the code and its result
    writers,         \* the add_build_child calls whose insert statement is in flight
    http,            \* a GET /builds/{id}/children request, its response and the stop flag
    trace,           \* an error, the TraceOptions, and what eprint and Display wrote for them
    dependency,      \* a Dependency, its Display string, and what FromStr made of the string
    task             \* a children stream as a task: where it is suspended and what it holds

vars == <<builds, build_children, committed, now, last, messenger, subs, reader,
          emitted, remotes, requests, database, getter, writers, http, trace,
          dependency, task>>

(***************************************************************************)
(* Bounds of the model.                                                    *)
(***************************************************************************)
MaxClock == 2

MaxMessages == 1

MaxRequests == 3

\* The largest length argument tried.
MaxLength == 1

\* The largest i64 of the model: i64::MAX scaled down to the model's integers.
I64Max == 4

\* The chunk size used when the argument gives none.
DefaultSize == 10

(***************************************************************************)
(* Identifiers and enumerations.                                           *)
(***************************************************************************)
BuildIds == {"bld_1", "bld_2", "bld_3"}

Statuses == {"created", "queued", "started", "finished"}

\* Option<T>: None is the empty set, Some(x) the singleton.
None == {}

Some(x) == {x}

\* The order Created < Queued < Started < Finished.
StatusRank(s) ==
    CASE s = "created" -> 0
      [] s = "queued" -> 1
      [] s = "started" -> 2
      [] s = "finished" -> 3

Min(a, b) == IF a <= b THEN a ELSE b

(***************************************************************************)
(* The build_children table and the statements run against it.             *)
(***************************************************************************)
RowsIn(rows, b) == {r \in rows : r.build = b}

\* select count(*) from build_children where build = b
CountIn(rows, b) == Cardinality(RowsIn(rows, b))

\* NextPosition with the coalesce defaulting to 1.
NextPositionFromOne(rows, b) ==
    IF RowsIn(rows, b) = {}
    THEN 1
    ELSE (CHOOSE p \in {r.position : r \in RowsIn(rows, b)} :
              \A r \in RowsIn(rows, b) : r.position <= p) + 1

\* (select coalesce(max(position) + 1, 0) from build_children where build = b)
NextPosition(rows, b) ==
    IF RowsIn(rows, b) = {}
    THEN 0
    ELSE (CHOOSE p \in {r.position : r \in RowsIn(rows, b)} :
              \A r \in RowsIn(rows, b) : r.position <= p) + 1

\* on conflict (build, child) do nothing
ConflictsOnChild(rows, b, c) == \E r \in rows : r.build = b /\ r.child = c

\* InsertChild without its "on conflict (build, child) do nothing".
InsertChildIgnoringConflict(rows, b, c) ==
    rows \cup {[build |-> b, position |-> NextPosition(rows, b), child |-> c]}

\* insert into build_children (build, position, child)
\* values (b, (select coalesce(max(position) + 1, 0) ...), c)
\* on conflict (build, child) do nothing;
InsertChild(rows, b, c) ==
    IF ConflictsOnChild(rows, b, c)
    THEN rows
    ELSE rows \cup {[build |-> b, position |-> NextPosition(rows, b), child |-> c]}

\* OrderByPosition with "order by position desc".
RECURSIVE OrderByPositionDescending(_)
OrderByPositionDescending(S) ==
    IF S = {}
    THEN <<>>
    ELSE LET first == CHOOSE r \in S : \A q \in S : r.position >= q.position
         IN  <<first>> \o OrderByPositionDescending(S \ {first})

\* The rows of a build in the order of "order by position".
RECURSIVE OrderByPosition(_)
OrderByPosition(S) ==
    IF S = {}
    THEN <<>>
    ELSE LET first == CHOOSE r \in S : \A q \in S : r.position <= q.position
         IN  <<first>> \o OrderByPosition(S \ {first})

\* select child from build_children where build = b
\* order by position limit l offset o
SelectChildren(rows, b, l, o) ==
    LET all == OrderByPosition(RowsIn(rows, b))
        page == SubSeq(all, o + 1, Min(o + l, Len(all)))
    IN  [i \in 1..Len(page) |-> page[i].child]

\* Every child of a build, in position order.
ChildrenOf(rows, b) == SelectChildren(rows, b, CountIn(rows, b), 0)

(***************************************************************************)
(* The messenger. A subscription is a queue of payload-free messages; the  *)
(* only subscriber modelled is the children stream, which subscribes to    *)
(* builds.{id}.children and builds.{id}.status of the build it tails.      *)
(* Delivery is best effort: a published message may be dropped.            *)
(***************************************************************************)
Subjects == {"children", "status"}

Subscribed(b) ==
    /\ reader.pc \notin {"closed", "none", "invalid", "remote", "error"}
    /\ reader.build = b

\* The states of the subscriptions a publish on builds.{b}.{subject} can leave.
Deliveries(b, subject) ==
    {subs} \cup
    (IF Subscribed(b) /\ reader.pc # "done" /\ subs[subject] < MaxMessages
     THEN {[subs EXCEPT ![subject] = @ + 1]}
     ELSE {})

NoCall == [op |-> "none", build |-> "", child |-> "", status |-> "",
           result |-> "", published |-> None, duplicate |-> FALSE]

\* The call log of a server whose calls nobody observes.
Unobserved == [NoCall EXCEPT !.op = "unobserved"]

\* What `last` becomes when a call returns.
Returned(call) == IF last = Unobserved THEN last ELSE call

\* The messenger goes down, or comes back.
MessengerFlips ==
    /\ messenger' = IF messenger = "up" THEN "down" ELSE "up"
    /\ UNCHANGED <<builds, build_children, committed, now, last, subs, reader,
                   emitted, remotes, requests, database, writers, getter,
                   http, trace, dependency, task>>

\* The callers that run add_build_child concurrently.
Writers == {"w1", "w2"}

NoWriter == [pc |-> "idle", build |-> "", child |-> "", position |-> 0, result |-> ""]

NoWriters == [w \in Writers |-> NoWriter]

(***************************************************************************)
(* add_build_child.                                                        *)
(***************************************************************************)
\* GetBuildExistsLocal that finds every build.
GetBuildExistsLocalAlways(b) == TRUE

\* get_build_exists_local
GetBuildExistsLocal(b) == b \in DOMAIN builds

\* try_add_build_child_local on a local build: the insert statement, then the
\* publish on builds.{b}.children, whose failure is returned with `?`.
TryAddBuildChildLocal(b, c) ==
    /\ GetBuildExistsLocal(b)
    /\ build_children' = InsertChild(build_children, b, c)
    /\ committed' = IF ConflictsOnChild(build_children, b, c)
                    THEN committed
                    ELSE [committed EXCEPT ![b] = Append(@, c)]
    /\ subs' \in (IF messenger = "up" THEN Deliveries(b, "children") ELSE {subs})
    /\ last' = Returned([op |-> "add_build_child", build |-> b, child |-> c,
                         status |-> "",
                         result |-> IF messenger = "up" THEN "ok" ELSE "error",
                         published |-> IF messenger = "up" THEN Some("children") ELSE None,
                         duplicate |-> ConflictsOnChild(build_children, b, c)])
    /\ UNCHANGED <<remotes, requests>>

\* TryAddBuildChildRemote that forwards the call whether or not the push failed.
TryAddBuildChildRemoteIgnoringPush(b, c) ==
    /\ ~GetBuildExistsLocal(b)
    /\ UNCHANGED <<build_children, committed, subs>>
    /\ IF remotes = <<>>
       THEN /\ last' = Returned([op |-> "add_build_child", build |-> b, child |-> c,
                                 status |-> "", result |-> "not_found",
                                 published |-> None, duplicate |-> FALSE])
            /\ UNCHANGED <<remotes, requests>>
       ELSE /\ Len(requests) + 2 <= MaxRequests
            /\ remotes' = [remotes EXCEPT ![1].build_children =
                    IF b \in DOMAIN remotes[1].builds
                    THEN InsertChild(@, b, c) ELSE @]
            /\ \E pushed \in BOOLEAN :
                 /\ requests' = requests \o
                       <<[remote |-> 1, op |-> IF pushed THEN "push" ELSE "push_failed",
                          build |-> c],
                         [remote |-> 1, op |-> "add_build_child", build |-> b]>>
                 /\ last' = Returned([op |-> "add_build_child", build |-> b,
                             child |-> c, status |-> "",
                             result |-> IF pushed /\ b \in DOMAIN remotes[1].builds
                                        THEN "ok" ELSE "error",
                             published |-> None, duplicate |-> FALSE])

\* try_add_build_child_remote: push the child to the first remote, then forward.
TryAddBuildChildRemote(b, c) ==
    /\ ~GetBuildExistsLocal(b)
    /\ UNCHANGED <<build_children, committed, subs>>
    /\ IF remotes = <<>>
       THEN /\ last' = Returned([op |-> "add_build_child", build |-> b, child |-> c,
                                 status |-> "", result |-> "not_found",
                                 published |-> None, duplicate |-> FALSE])
            /\ UNCHANGED <<remotes, requests>>
       ELSE /\ Len(requests) + 2 <= MaxRequests
            /\ \E pushed \in BOOLEAN :
                 IF ~pushed
                 THEN /\ requests' = Append(requests,
                             [remote |-> 1, op |-> "push_failed", build |-> c])
                      /\ last' = Returned([op |-> "add_build_child", build |-> b,
                                  child |-> c, status |-> "", result |-> "error",
                                  published |-> None, duplicate |-> FALSE])
                      /\ UNCHANGED remotes
                 ELSE /\ requests' = requests \o
                              <<[remote |-> 1, op |-> "push", build |-> c],
                                [remote |-> 1, op |-> "add_build_child", build |-> b]>>
                      /\ remotes' = [remotes EXCEPT ![1].build_children =
                              IF b \in DOMAIN remotes[1].builds
                              THEN InsertChild(@, b, c) ELSE @]
                      /\ last' = Returned([op |-> "add_build_child", build |-> b,
                                  child |-> c, status |-> "",
                                  result |-> IF b \in DOMAIN remotes[1].builds
                                             THEN "ok" ELSE "error",
                                  published |-> None, duplicate |-> FALSE])

\* add_build_child
AddBuildChild(b, c) ==
    /\ \/ TryAddBuildChildLocal(b, c)
       \/ TryAddBuildChildRemote(b, c)
    /\ UNCHANGED <<builds, now, messenger, reader, emitted, database, writers, getter,
                   http, trace, dependency, task>>

\* Two calls of try_add_build_child_local on one connection pool. The insert
\* is one statement with no transaction, lock or retry around it. The store
\* decides how concurrent statements interleave: sqlite runs one writing
\* statement at a time; postgres (read committed) evaluates the subquery on
\* the snapshot the statement took when it started, and checks the conflict
\* on (build, child) when it writes.
\*
\* The statement of writer w starts: its snapshot gives the next position.
InsertBegin(w, b, c) ==
    /\ writers[w].pc = "idle"
    /\ GetBuildExistsLocal(b)
    /\ writers' = [writers EXCEPT ![w] =
           [pc |-> "insert", build |-> b, child |-> c,
            position |-> NextPosition(build_children, b), result |-> ""]]
    /\ UNCHANGED <<builds, build_children, committed, now, last, messenger, subs,
                   reader, emitted, remotes, requests, database, getter, http,
                   trace, dependency, task>>

\* A row of the build holds the position.
PositionTaken(rows, b, position) ==
    \E r \in RowsIn(rows, b) : r.position = position

\* The results the statement of a writer can have when it writes: on sqlite
\* the statement as a whole runs now; on postgres the row takes the position
\* of the snapshot, and when another row took that position meanwhile the
\* statement either fails on a unique index on (build, position) or, the
\* table having none, stores a second row at the position.
InsertOutcomes(w) ==
    LET b == writers[w].build
        c == writers[w].child
        row == [build |-> b, position |-> writers[w].position, child |-> c]
    IN  IF database = "sqlite"
        THEN {[rows |-> InsertChild(build_children, b, c), result |-> "ok"]}
        ELSE IF ConflictsOnChild(build_children, b, c)
        THEN {[rows |-> build_children, result |-> "ok"]}
        ELSE IF PositionTaken(build_children, b, writers[w].position)
        THEN {[rows |-> build_children, result |-> "error"],
              [rows |-> build_children \cup {row}, result |-> "ok"]}
        ELSE {[rows |-> build_children \cup {row}, result |-> "ok"]}

\* The statement of writer w writes, the message is published and
\* try_add_build_child_local returns; a failed statement returns its error
\* before the publish.
InsertWrite(w) ==
    /\ writers[w].pc = "insert"
    /\ \E outcome \in InsertOutcomes(w) :
          /\ build_children' = outcome.rows
          /\ committed' = IF outcome.rows = build_children
                          THEN committed
                          ELSE [committed EXCEPT ![writers[w].build] =
                                   Append(@, writers[w].child)]
          /\ subs' \in (IF outcome.result = "ok" /\ messenger = "up"
                         THEN Deliveries(writers[w].build, "children")
                         ELSE {subs})
          /\ writers' = [writers EXCEPT ![w].pc = "returned",
                 ![w].result = IF messenger = "up" THEN outcome.result ELSE "error"]
    /\ UNCHANGED <<builds, now, last, messenger, reader, emitted, remotes, requests,
                   database, getter, http, trace, dependency, task>>

\* The caller of writer w takes the result.
InsertReturn(w) ==
    /\ writers[w].pc = "returned"
    /\ writers' = [writers EXCEPT ![w] = NoWriter]
    /\ UNCHANGED <<builds, build_children, committed, now, last, messenger, subs,
                   reader, emitted, remotes, requests, database, getter, http,
                   trace, dependency, task>>

(***************************************************************************)
(* The build status machine: update_status, set_outcome, put_build.        *)
(***************************************************************************)
\* The timestamp column a status sets.
WithTimestamp(row, status, t) ==
    CASE status = "created" -> [row EXCEPT !.created_at = t]
      [] status = "queued" -> [row EXCEPT !.queued_at = Some(t)]
      [] status = "started" -> [row EXCEPT !.started_at = Some(t)]
      [] status = "finished" -> [row EXCEPT !.finished_at = Some(t)]

\* A status is a regression when it is lower than the stored one.
RegressesIn(rows, b, status) ==
    b \in DOMAIN rows /\ StatusRank(status) < StatusRank(rows[b].status)

Regresses(b, status) == RegressesIn(builds, b, status)

\* The outcome is present iff the status is Finished.
OutcomeMatches(status, outcome) == (outcome # None) <=> (status = "finished")

\* UpdateStatusResult without the check for a regression.
UpdateStatusResultAcceptingRegression(b, new, outcome) ==
    IF ~GetBuildExistsLocal(b) THEN "not_found"
    ELSE IF ~OutcomeMatches(new, outcome) THEN "invalid"
    ELSE "ok"

\* What update_status(b, new) with the outcome that comes with it returns.
UpdateStatusResult(b, new, outcome) ==
    IF ~GetBuildExistsLocal(b) THEN "not_found"
    ELSE IF Regresses(b, new) THEN "invalid"
    ELSE IF ~OutcomeMatches(new, outcome) THEN "invalid"
    ELSE "ok"

\* update_status(b, new): transitions the status, sets the timestamp of the
\* new status and publishes on builds.{b}.status; set_outcome is the
\* transition to Finished, which carries the outcome.
UpdateStatus(b, new, outcome) ==
    LET result == UpdateStatusResult(b, new, outcome)
    IN  /\ IF result = "ok"
           THEN /\ builds' = [builds EXCEPT ![b] =
                       WithTimestamp([@ EXCEPT !.status = new, !.outcome = outcome],
                                     new, now)]
                /\ subs' \in Deliveries(b, "status")
           ELSE UNCHANGED <<builds, subs>>
        /\ last' = Returned([op |-> "update_status", build |-> b, child |-> "",
                    status |-> new, result |-> result,
                    published |-> IF result = "ok" THEN Some("status") ELSE None,
                    duplicate |-> FALSE])
        /\ UNCHANGED <<build_children, committed, now, messenger, reader, emitted,
                       remotes, requests, database, writers, getter, http,
                   trace, dependency, task>>

\* set_outcome(b, outcome)
SetOutcome(b, outcome) == UpdateStatus(b, "finished", Some(outcome))

\* The wall clock advances.
ClockTick ==
    /\ now < MaxClock
    /\ now' = now + 1
    /\ UNCHANGED <<builds, build_children, committed, last, messenger, subs,
                   reader, emitted, remotes, requests, database, writers, getter,
                   http, trace, dependency, task>>

\* The build_children rows of a children list: child i at position i - 1.
ChildRows(b, children) ==
    {[build |-> b, position |-> i - 1, child |-> children[i]] : i \in 1..Len(children)}

\* InsertBuildTables appending the children after the rows the build has.
InsertBuildTablesAppending(tables, arg) ==
    [builds |-> [x \in DOMAIN tables.builds \cup {arg.id} |->
                    IF x = arg.id
                    THEN [status |-> arg.status, outcome |-> arg.outcome,
                          created_at |-> arg.created_at, queued_at |-> arg.queued_at,
                          started_at |-> arg.started_at, finished_at |-> arg.finished_at]
                    ELSE tables.builds[x]],
     build_children |-> tables.build_children \cup
         {[build |-> arg.id,
           position |-> CountIn(tables.build_children, arg.id) + i - 1,
           child |-> arg.children[i]] : i \in 1..Len(arg.children)}]

\* The tables after the upsert of a snapshot: the builds row and, atomically
\* with it, the build's children rows.
InsertBuildTables(tables, arg) ==
    [builds |-> [x \in DOMAIN tables.builds \cup {arg.id} |->
                    IF x = arg.id
                    THEN [status |-> arg.status, outcome |-> arg.outcome,
                          created_at |-> arg.created_at, queued_at |-> arg.queued_at,
                          started_at |-> arg.started_at, finished_at |-> arg.finished_at]
                    ELSE tables.builds[x]],
     build_children |-> {r \in tables.build_children : r.build # arg.id}
                            \cup ChildRows(arg.id, arg.children)]

\* Whether put_build accepts a snapshot: the status and outcome invariants.
PutBuildValid(tables, arg) ==
    /\ OutcomeMatches(arg.status, arg.outcome)
    /\ (arg.finished_at # None) <=> (arg.status = "finished")
    /\ ~RegressesIn(tables.builds, arg.id, arg.status)

\* The tables after put_build(arg): an invalid snapshot changes nothing.
PutBuildTables(tables, arg) ==
    IF PutBuildValid(tables, arg) THEN InsertBuildTables(tables, arg) ELSE tables

\* The two tables of the local store.
Tables == [builds |-> builds, build_children |-> build_children]

\* insert_build(id, arg)
InsertBuild(arg) ==
    /\ builds' = InsertBuildTables(Tables, arg).builds
    /\ build_children' = InsertBuildTables(Tables, arg).build_children
    /\ committed' = [committed EXCEPT ![arg.id] = arg.children]

\* put_build(arg)
PutBuild(arg) ==
    /\ builds' = PutBuildTables(Tables, arg).builds
    /\ build_children' = PutBuildTables(Tables, arg).build_children
    /\ committed' = IF PutBuildValid(Tables, arg)
                    THEN [committed EXCEPT ![arg.id] = arg.children]
                    ELSE committed
    /\ last' = Returned([op |-> "put_build", build |-> arg.id, child |-> "",
                status |-> arg.status,
                result |-> IF PutBuildValid(Tables, arg) THEN "ok" ELSE "invalid",
                published |-> None,
                duplicate |-> PutBuildValid(Tables, arg)
                              /\ InsertBuildTables(Tables, arg) = Tables])
    /\ UNCHANGED <<now, messenger, subs, reader, emitted, remotes, requests,
                   database, writers, getter, http, trace, dependency,
                   task>>

(***************************************************************************)
(* try_get_build_children: the tailing children stream.                    *)
(***************************************************************************)
Closed == [pc |-> "closed", build |-> "", seek |-> [whence |-> "none", offset |-> 0],
           length |-> None, size |-> None, timeout |-> None, source |-> 0,
           start |-> 0, position |-> 0, read |-> 0, end |-> FALSE,
           first |-> FALSE, fired |-> FALSE]

NoMessages == [s \in Subjects |-> 0]

\* The positions a stream may be opened with: arg.position.
SeekArgs ==
    {[whence |-> "none", offset |-> 0]}
    \cup {[whence |-> "start", offset |-> n] : n \in {0, 1, 3}}
    \cup {[whence |-> "end", offset |-> k] : k \in {-1, 0, I64Max}}
    \cup {[whence |-> "current", offset |-> k] : k \in {-2, 1}}

LengthArgs == {None} \cup {Some(n) : n \in 0..MaxLength}

\* arg.timeout: none, zero, or a positive duration.
TimeoutArgs == {None, Some("zero"), Some("positive")}

\* try_get_build_children_local_current_position
CurrentPosition(b) == CountIn(build_children, b)

\* ResolvePosition with a wrapping add in place of checked_add.
ResolvePositionUnchecked(seek, count) ==
    CASE seek.whence = "start" -> seek.offset
      [] seek.whence = "none" -> count
      [] OTHER ->
           IF count + seek.offset < 0
           THEN -1
           ELSE count + seek.offset

\* The start position of arg.position against the count, or -1 for the
\* "invalid offset" error of checked_add and to_u64.
ResolvePosition(seek, count) ==
    CASE seek.whence = "start" -> seek.offset
      [] seek.whence = "none" -> count
      [] OTHER ->
           IF count + seek.offset > I64Max \/ count + seek.offset < 0
           THEN -1
           ELSE count + seek.offset

\* The first remote that is consulted on a local miss.
FirstRemote == IF remotes = <<>> THEN None ELSE Some(1)

\* try_get_build_children_remote: the stream of the first remote, if it has
\* the build.
TryGetBuildChildrenRemote(b, arg) ==
    /\ ~GetBuildExistsLocal(b)
    /\ IF FirstRemote = None
       THEN /\ reader' = [arg EXCEPT !.pc = "none", !.build = b]
            /\ UNCHANGED requests
       ELSE /\ Len(requests) < MaxRequests
            /\ requests' = Append(requests,
                   [remote |-> 1, op |-> "try_get_build_children", build |-> b])
            /\ reader' = [arg EXCEPT !.build = b,
                   !.pc = IF b \in DOMAIN remotes[1].builds THEN "remote" ELSE "none",
                   !.source = IF b \in DOMAIN remotes[1].builds THEN 1 ELSE 0]
    /\ UNCHANGED subs

\* try_get_build_children_remote when the request to the remote fails: the
\* error is returned with `?`.
TryGetBuildChildrenRemoteError(b, arg) ==
    /\ reader.pc = "closed"
    /\ ~GetBuildExistsLocal(b)
    /\ FirstRemote # None
    /\ Len(requests) < MaxRequests
    /\ requests' = Append(requests,
           [remote |-> 1, op |-> "try_get_build_children_failed", build |-> b])
    /\ reader' = [arg EXCEPT !.pc = "error", !.build = b, !.source = 1]
    /\ UNCHANGED <<builds, build_children, committed, now, last, messenger, subs,
                   emitted, remotes, database, writers, getter, http,
                   trace, dependency, task>>

\* try_get_build_children_local, up to the subscriptions.
TryGetBuildChildrenLocal(b, arg) ==
    /\ GetBuildExistsLocal(b)
    /\ reader' = [arg EXCEPT !.pc = "seek", !.build = b]
    /\ subs' = NoMessages
    /\ UNCHANGED requests

\* try_get_build_children(id, arg)
TryGetBuildChildren(b, arg) ==
    /\ reader.pc = "closed"
    /\ \/ TryGetBuildChildrenLocal(b, arg)
       \/ TryGetBuildChildrenRemote(b, arg)
    /\ UNCHANGED <<builds, build_children, committed, now, last, messenger, emitted,
                   remotes, database, writers, getter, http,
                   trace, dependency, task>>

\* OuterNext that ends only when more than `length` items were read.
OuterNextPastLength(r) ==
    IF r.end THEN "done"
    ELSE IF r.length # None /\ (\E l \in r.length : r.read > l) THEN "done"
    ELSE "wait"

\* What the outer unfold does when it is polled: it ends when `end` is set or
\* `length` items were read, and waits for the next event otherwise.
OuterNext(r) ==
    IF r.end THEN "done"
    ELSE IF r.length # None /\ (\E l \in r.length : r.read >= l) THEN "done"
    ELSE "wait"

\* try_get_build_children_local: the position is resolved and the stream returned.
ReaderSeek ==
    /\ reader.pc = "seek"
    /\ LET position == ResolvePosition(reader.seek, CurrentPosition(reader.build))
           opened == [reader EXCEPT !.start = position, !.position = position,
                         !.read = 0, !.end = FALSE, !.first = TRUE,
                         !.fired = (reader.timeout = Some("zero"))]
       IN  IF position < 0
           THEN /\ reader' = [reader EXCEPT !.pc = "invalid"]
                /\ subs' = NoMessages
           ELSE /\ reader' = [opened EXCEPT !.pc = OuterNext(opened)]
                /\ subs' = IF OuterNext(opened) = "done" THEN NoMessages ELSE subs
    /\ UNCHANGED <<builds, build_children, committed, now, last, messenger, emitted,
                   remotes, requests, database, writers, getter, http,
                   trace, dependency, task>>

\* The timeout of the stream elapses.
TimeoutFires ==
    /\ reader.pc \in {"wait", "status", "inner", "endcheck"}
    /\ reader.timeout # None
    /\ ~reader.fired
    /\ reader' = [reader EXCEPT !.fired = TRUE]
    /\ UNCHANGED <<builds, build_children, committed, now, last, messenger, subs,
                   emitted, remotes, requests, database, writers, getter,
                   http, trace, dependency, task>>

\* events.next() yields the synthetic first event.
EventFirst ==
    /\ reader.pc = "wait"
    /\ reader.first
    /\ reader' = [reader EXCEPT !.pc = "status", !.first = FALSE]
    /\ UNCHANGED subs

\* events.next() yields None: take_until saw the timeout.
EventTimeout ==
    /\ reader.pc = "wait"
    /\ ~reader.first
    /\ reader.fired
    /\ reader' = [reader EXCEPT !.pc = "done"]
    /\ subs' = NoMessages

\* events.next() yields a message of one of the two subscriptions.
EventMessage(subject) ==
    /\ reader.pc = "wait"
    /\ ~reader.first
    /\ ~reader.fired
    /\ subs[subject] > 0
    /\ reader' = [reader EXCEPT !.pc = "status"]
    /\ subs' = [subs EXCEPT ![subject] = @ - 1]

\* EventInterval of a `take_until` that does not look at the timeout.
EventIntervalPastTimeout ==
    /\ reader.pc = "wait"
    /\ ~reader.first
    /\ reader' = [reader EXCEPT !.pc = "status"]
    /\ UNCHANGED subs

\* events.next() yields a tick of the 60 second interval.
EventInterval ==
    /\ reader.pc = "wait"
    /\ ~reader.first
    /\ ~reader.fired
    /\ reader' = [reader EXCEPT !.pc = "status"]
    /\ UNCHANGED subs

\* events.next()
ReaderEvent ==
    /\ \/ EventFirst
       \/ EventTimeout
       \/ \E subject \in Subjects : EventMessage(subject)
       \/ EventInterval
    /\ UNCHANGED <<builds, build_children, committed, now, last, messenger, emitted,
                   remotes, requests, database, writers, getter, http,
                   trace, dependency, task>>

\* The status read at the top of an event: `end` is set when it is Finished.
ReaderStatus ==
    /\ reader.pc = "status"
    /\ reader' = [reader EXCEPT !.pc = "inner",
                      !.end = (builds[reader.build].status = "finished")]
    /\ UNCHANGED <<builds, build_children, committed, now, last, messenger, subs,
                   emitted, remotes, requests, database, writers, getter,
                   http, trace, dependency, task>>

\* PageSize that is the size of the argument, whatever was read.
PageSizeIgnoringLength(r) ==
    IF r.size = None THEN DefaultSize ELSE CHOOSE n \in r.size : TRUE

\* The size of the next page: size.min(length - state.read).
PageSize(r) ==
    LET size == IF r.size = None THEN DefaultSize ELSE CHOOSE n \in r.size : TRUE
    IN  IF r.length = None
        THEN size
        ELSE Min(size, (CHOOSE l \in r.length : TRUE) - r.read)

\* TryGetBuildChildrenLocalInner with the limit and the offset exchanged.
InnerExchangingLimitAndOffset(b, position, length) ==
    [position |-> position,
     items |-> SelectChildren(build_children, b, position, length)]

\* try_get_build_children_local_inner(id, position, length)
TryGetBuildChildrenLocalInner(b, position, length) ==
    [position |-> position,
     items |-> SelectChildren(build_children, b, length, position)]

\* One poll of the inner unfold: a page is read and the State advanced; a
\* non-empty chunk is yielded, an empty one goes to the end check.
ReaderInner ==
    /\ reader.pc = "inner"
    /\ IF PageSize(reader) < 0
       THEN /\ reader' = [reader EXCEPT !.pc = "panic"]
            /\ UNCHANGED emitted
       ELSE LET chunk == TryGetBuildChildrenLocalInner(
                             reader.build, reader.position, PageSize(reader))
                read == Len(chunk.items)
            IN  /\ reader' = [reader EXCEPT
                       !.position = @ + read, !.read = @ + read,
                       !.pc = IF read = 0 THEN "endcheck" ELSE "inner"]
                /\ emitted' = IF read = 0 THEN emitted ELSE Append(emitted, chunk)
    /\ UNCHANGED <<builds, build_children, committed, now, last, messenger, subs,
                   remotes, requests, database, writers, getter, http,
                   trace, dependency, task>>

\* TryGetBuildChildrenLocalEnd without the test of the status.
EndIgnoringStatus(b, position) == position >= CountIn(build_children, b)

\* try_get_build_children_local_end(id, position)
TryGetBuildChildrenLocalEnd(b, position) ==
    /\ builds[b].status = "finished"
    /\ position >= CountIn(build_children, b)

\* The empty chunk is yielded only if the build is finished and the position
\* is at the end; either way the inner stream ends and the outer is polled.
ReaderEnd ==
    /\ reader.pc = "endcheck"
    /\ emitted' = IF TryGetBuildChildrenLocalEnd(reader.build, reader.position)
                  THEN Append(emitted, [position |-> reader.position, items |-> <<>>])
                  ELSE emitted
    /\ reader' = [reader EXCEPT !.pc = OuterNext(reader)]
    /\ subs' = IF OuterNext(reader) = "done" THEN NoMessages ELSE subs
    /\ UNCHANGED <<builds, build_children, committed, now, last, messenger, remotes,
                   requests, database, writers, getter, http,
                   trace, dependency, task>>

\* The stream is dropped by its consumer: the subscriptions go with it.
ReaderDrop ==
    /\ reader.pc \notin {"closed"}
    /\ reader' = Closed
    /\ subs' = NoMessages
    /\ emitted' = <<>>
    /\ UNCHANGED <<builds, build_children, committed, now, last, messenger,
                   remotes, requests, database, writers, getter, http,
                   trace, dependency, task>>

(***************************************************************************)
(* try_get_build: local first, then the remote, whose finished builds are  *)
(* inserted locally.                                                       *)
(***************************************************************************)
NoRow == [status |-> "none", outcome |-> None, created_at |-> 0,
          queued_at |-> None, started_at |-> None, finished_at |-> None]

Idle == [pc |-> "idle", id |-> "", output |-> NoRow, children |-> <<>>,
         result |-> "", source |-> ""]

\* TryGetBuildLocal that never finds the row.
TryGetBuildLocalMissing(id) == IF database = "sqlite" THEN "none" ELSE "error"

\* try_get_build_sqlite and try_get_build_postgres: rows.next() gives None
\* when there is no row, query_one gives an error.
TryGetBuildLocal(id) ==
    IF id \in DOMAIN builds THEN "some"
    ELSE IF database = "sqlite" THEN "none"
    ELSE "error"

\* The remote try_get_build consults: self.inner.remote.
TheRemote == FirstRemote

\* The pages of a stream that is polled on its first event only, which is
\* what a zero timeout leaves of it: from `position`, until a page is empty.
RECURSIVE Pages(_, _, _, _)
Pages(rows, b, position, size) ==
    LET page == SelectChildren(rows, b, size, position)
    IN  IF page = <<>>
        THEN <<>>
        ELSE page \o Pages(rows, b, position + Len(page), size)

\* The items of try_get_build_children(id, arg) with the default arg and a
\* zero timeout, collected: with no arg.position the stream starts at the
\* current count of children.
CollectChildren(rows, b) ==
    Pages(rows, b, ResolvePosition([whence |-> "none", offset |-> 0], CountIn(rows, b)),
          DefaultSize)

\* InsertsRemoteBuild without the test of the status.
InsertsAnyRemoteBuild(output) == TRUE

\* InsertsRemoteBuild taking a started build as well.
InsertsStartedRemoteBuild(output) == output.status \in {"started", "finished"}

\* try_get_build_remote inserts the remote's build only if it is finished.
InsertsRemoteBuild(output) == output.status = "finished"

\* try_get_build, up to the answer of the remote.
TryGetBuild(id) ==
    /\ getter.pc = "idle"
    /\ LET local == TryGetBuildLocal(id)
       IN  IF local = "some"
           THEN /\ getter' = [Idle EXCEPT !.pc = "returned", !.id = id,
                       !.output = builds[id], !.result = "some", !.source = "local"]
                /\ UNCHANGED requests
           ELSE IF local = "error"
           THEN /\ getter' = [Idle EXCEPT !.pc = "returned", !.id = id,
                       !.result = "error", !.source = "local"]
                /\ UNCHANGED requests
           ELSE IF TheRemote = None
           THEN /\ getter' = [Idle EXCEPT !.pc = "returned", !.id = id,
                       !.result = "none"]
                /\ UNCHANGED requests
           ELSE LET r == CHOOSE i \in TheRemote : TRUE
                IN  /\ Len(requests) < MaxRequests
                    /\ requests' = Append(requests,
                           [remote |-> r, op |-> "try_get_build", build |-> id])
                    /\ getter' =
                           IF id \notin DOMAIN remotes[r].builds
                           THEN [Idle EXCEPT !.pc = "returned", !.id = id,
                                    !.result = "none"]
                           ELSE IF InsertsRemoteBuild(remotes[r].builds[id])
                           THEN [Idle EXCEPT !.pc = "children", !.id = id,
                                    !.output = remotes[r].builds[id],
                                    !.source = "remote"]
                           ELSE [Idle EXCEPT !.pc = "returned", !.id = id,
                                    !.output = remotes[r].builds[id],
                                    !.result = "some", !.source = "remote"]
    /\ UNCHANGED <<builds, build_children, committed, now, last, messenger, subs,
                   reader, emitted, remotes, database, writers, http,
                   trace, dependency, task>>

\* try_get_build when the request to the remote fails: try_get_build_remote
\* returns the error with `?`, and so does try_get_build.
TryGetBuildRemoteError(id) ==
    /\ getter.pc = "idle"
    /\ TryGetBuildLocal(id) = "none"
    /\ TheRemote # None
    /\ Len(requests) < MaxRequests
    /\ requests' = Append(requests,
           [remote |-> 1, op |-> "try_get_build_failed", build |-> id])
    /\ getter' = [Idle EXCEPT !.pc = "returned", !.id = id, !.result = "error",
                               !.source = "remote"]
    /\ UNCHANGED <<builds, build_children, committed, now, last, messenger, subs,
                   reader, emitted, remotes, database, writers, http,
                   trace, dependency, task>>

\* try_get_build_remote: the children of the finished build are collected
\* from this server's own get_build_children, local first, then the remote.
GetBuildChildren ==
    /\ getter.pc = "children"
    /\ IF GetBuildExistsLocal(getter.id)
       THEN /\ getter' = [getter EXCEPT !.pc = "insert",
                   !.children = CollectChildren(build_children, getter.id)]
            /\ UNCHANGED requests
       ELSE /\ Len(requests) < MaxRequests
            /\ requests' = Append(requests,
                   [remote |-> 1, op |-> "try_get_build_children", build |-> getter.id])
            /\ getter' =
                   IF getter.id \in DOMAIN remotes[1].builds
                   THEN [getter EXCEPT !.pc = "insert",
                            !.children = CollectChildren(remotes[1].build_children,
                                                         getter.id)]
                   ELSE [getter EXCEPT !.pc = "returned", !.result = "error"]
    /\ UNCHANGED <<builds, build_children, committed, now, last, messenger, subs,
                   reader, emitted, remotes, database, writers, http,
                   trace, dependency, task>>

\* The PutArg try_get_build_remote builds from the remote's output.
RemotePutArg(id, output, children) ==
    [id |-> id, children |-> children, status |-> output.status,
     outcome |-> output.outcome, created_at |-> output.created_at,
     queued_at |-> output.queued_at, started_at |-> output.started_at,
     finished_at |-> output.finished_at]

\* try_get_build_remote: insert_build, and the remote's output is returned.
GetBuildInsert ==
    /\ getter.pc = "insert"
    /\ InsertBuild(RemotePutArg(getter.id, getter.output, getter.children))
    /\ getter' = [getter EXCEPT !.pc = "returned", !.result = "some"]
    /\ UNCHANGED <<now, last, messenger, subs, reader, emitted, remotes, requests,
                   database, writers, http, trace, dependency, task>>

\* The caller takes the result of try_get_build.
GetBuildReturn ==
    /\ getter.pc = "returned"
    /\ getter' = Idle
    /\ UNCHANGED <<builds, build_children, committed, now, last, messenger, subs,
                   reader, emitted, remotes, requests, database, writers,
                   http, trace, dependency, task>>

(***************************************************************************)
(* GET /builds/{id}/children: handle_get_build_children_request and the    *)
(* body of its response, polled by the connection.                         *)
(***************************************************************************)
\* The Accept header of a request: absent, */*, application/json,
\* text/event-stream, another media type, or a value that is no media type.
Accepts == {"absent", "any", "json", "sse", "other", "malformed"}

\* The Accept headers answered with a JSON array.
JsonAccepts == {"absent", "any", "json"}

\* No request was received; the stop flag of the server is false.
NoRequest == [pc |-> "idle", build |-> "", accept |-> "absent", status |-> 0,
              taken |-> 0, events |-> <<>>, array |-> None, stop |-> FALSE,
              cut |-> FALSE]

\* The status of the response the router writes for a handler that returned
\* an error.
ErrorStatus == 500

\* The query string of the requests: one child per chunk, from the start.
QueryArg == [Closed EXCEPT !.seek = [whence |-> "start", offset |-> 0], !.size = Some(1)]

\* The request is received: the id, the query and the Accept header are
\* parsed; a header that is no media type is an error.
HttpRequest(b, accept) ==
    /\ http.pc = "idle"
    /\ http' = IF accept = "malformed"
               THEN [http EXCEPT !.pc = "ended", !.build = b, !.accept = accept,
                                 !.status = ErrorStatus]
               ELSE [http EXCEPT !.pc = "calling", !.build = b, !.accept = accept]
    /\ UNCHANGED <<builds, build_children, committed, now, last, messenger, subs,
                   reader, emitted, remotes, requests, database, getter, writers,
                   trace, dependency, task>>

\* handle.try_get_build_children(&id, arg)
HttpCall ==
    /\ http.pc = "calling"
    /\ \/ TryGetBuildChildren(http.build, QueryArg)
       \/ TryGetBuildChildrenRemoteError(http.build, QueryArg)

\* The position of the stream is resolved inside the call.
HttpCallSeek ==
    /\ http.pc = "calling"
    /\ ReaderSeek

\* The call has returned: its error is returned, no stream is answered with
\* not_found(), an Accept header that is none of the three is an error, and
\* otherwise the response is 200 with the body still to be polled.
HttpRespond ==
    /\ http.pc = "calling"
    /\ reader.pc \notin {"closed", "seek"}
    /\ IF reader.pc \in {"error", "invalid"}
       THEN http' = [http EXCEPT !.pc = "ended", !.status = ErrorStatus]
       ELSE IF reader.pc = "none"
       THEN http' = [http EXCEPT !.pc = "ended", !.status = 404]
       ELSE IF http.accept \notin JsonAccepts \cup {"sse"}
       THEN http' = [http EXCEPT !.pc = "ended", !.status = ErrorStatus]
       ELSE http' = [http EXCEPT !.pc = "open", !.status = 200]
    /\ IF http'.pc = "ended"
       THEN reader' = Closed /\ subs' = NoMessages
       ELSE UNCHANGED <<reader, subs>>
    /\ UNCHANGED <<builds, build_children, committed, now, last, messenger, emitted,
                   remotes, requests, database, getter, writers,
                   trace, dependency, task>>

\* CollectItems that puts the items of each chunk before those collected.
RECURSIVE CollectItemsPrepending(_)
CollectItemsPrepending(chunks) ==
    IF chunks = <<>> THEN <<>>
    ELSE chunks[Len(chunks)].items
           \o CollectItemsPrepending(SubSeq(chunks, 1, Len(chunks) - 1))

\* map_ok(chunk.items).try_flatten().try_collect(): the items of the chunks,
\* each chunk's items pushed after those collected so far.
RECURSIVE CollectItems(_)
CollectItems(chunks) ==
    IF chunks = <<>> THEN <<>>
    ELSE CollectItems(SubSeq(chunks, 1, Len(chunks) - 1))
           \o chunks[Len(chunks)].items

\* The body ends: for a JSON response the array of the items collected is its
\* one frame; the stream is dropped.
HttpBodyEnds(cut) ==
    /\ http' = [http EXCEPT
           !.pc = "ended", !.cut = cut,
           !.array = IF http.accept \in JsonAccepts
                     THEN Some(CollectItems(SubSeq(emitted, 1, http.taken)))
                     ELSE None]
    /\ reader' = Closed
    /\ subs' = NoMessages

\* HttpPoll of a body that is not stopped by the flag.
HttpPollIgnoringStop ==
    /\ http.pc = "open"
    /\ IF http.taken < Len(emitted)
       THEN /\ http' = [http EXCEPT
                   !.taken = @ + 1,
                   !.events = IF http.accept = "sse"
                              THEN Append(@, emitted[http.taken + 1])
                              ELSE @]
            /\ UNCHANGED <<reader, subs>>
       ELSE /\ reader.pc = "done"
            /\ HttpBodyEnds(FALSE)
    /\ UNCHANGED <<builds, build_children, committed, now, last, messenger, emitted,
                   remotes, requests, database, getter, writers,
                   trace, dependency, task>>

\* The body is polled: take_until polls the stop future first and ends the
\* stream when the flag is true; otherwise the next chunk of the stream is
\* taken, as one event or into the array, and the end of the stream ends the
\* body.
HttpPoll ==
    /\ http.pc = "open"
    /\ IF http.stop
       THEN HttpBodyEnds(TRUE)
       ELSE IF http.taken < Len(emitted)
       THEN /\ http' = [http EXCEPT
                   !.taken = @ + 1,
                   !.events = IF http.accept = "sse"
                              THEN Append(@, emitted[http.taken + 1])
                              ELSE @]
            /\ UNCHANGED <<reader, subs>>
       ELSE /\ reader.pc = "done"
            /\ HttpBodyEnds(FALSE)
    /\ UNCHANGED <<builds, build_children, committed, now, last, messenger, emitted,
                   remotes, requests, database, getter, writers,
                   trace, dependency, task>>

\* The stream of an open body makes a step.
HttpStream ==
    /\ http.pc = "open"
    /\ \/ ReaderEvent
       \/ ReaderStatus
       \/ ReaderInner
       \/ ReaderEnd

\* The server stops: the watched flag becomes true.
HttpStop ==
    /\ ~http.stop
    /\ http' = [http EXCEPT !.stop = TRUE]
    /\ UNCHANGED <<builds, build_children, committed, now, last, messenger, subs,
                   reader, emitted, remotes, requests, database, getter, writers,
                   trace, dependency, task>>

(***************************************************************************)
(* tangram_error: the trace of an error, written by Trace::eprint and by    *)
(* the Display implementation of Trace.                                     *)
(***************************************************************************)
\* The longest source chain of the errors of the model.
MaxChain == 3

\* The error at depth n of a source chain, without its source: the message
\* names the depth, there is one value, the location and the stack are
\* optional.  A Location is its text and whether its source is
\* Source::Internal.
ErrorsAt(n) ==
    {[message |-> n, location |-> location, values |-> <<"name">>, stack |-> stack] :
        location \in {None, Some([text |-> "l0", internal |-> TRUE])},
        stack \in {None, Some(<<[text |-> "l1", internal |-> FALSE],
                                [text |-> "l2", internal |-> FALSE]>>)}}

\* The source chains of the errors at the depths k .. n - 1.
RECURSIVE ChainsFrom(_, _)
ChainsFrom(k, n) ==
    IF k >= n THEN {<<>>}
    ELSE {<<error>> \o sources : error \in ErrorsAt(k), sources \in ChainsFrom(k + 1, n)}

\* An Error with its `source` links e0 -> e1 -> ..., written as the sequence
\* the links are followed in.
Errors == UNION {ChainsFrom(0, n) : n \in 1..MaxChain}

\* TraceOptions
TraceOptions == [internal : BOOLEAN, reverse : BOOLEAN]

\* No trace was asked for.
NoTrace == [error |-> <<>>, options |-> [internal |-> FALSE, reverse |-> FALSE],
            eprinted |-> None, displayed |-> None]

\* errors.reverse() / stack.reverse()
RECURSIVE Reversed(_)
Reversed(seq) ==
    IF seq = <<>> THEN <<>> ELSE Append(Reversed(Tail(seq)), Head(seq))

\* The lines of the locations that are not internal, or all of them with
\* options.internal.
RECURSIVE LocationLines(_, _)
LocationLines(locations, options) ==
    IF locations = <<>> THEN <<>>
    ELSE (IF ~Head(locations).internal \/ options.internal
          THEN <<[kind |-> "location", of |-> Head(locations).text]>>
          ELSE <<>>)
         \o LocationLines(Tail(locations), options)

\* The lines written for one error: the message, the location, the values
\* in the order of the BTreeMap, and the locations of
\* error.stack.iter().flatten(), reversed when `reverseStack` holds.
ErrorLines(error, options, reverseStack) ==
    LET stack == IF error.stack = None THEN <<>>
                 ELSE CHOOSE locations \in error.stack : TRUE
    IN  <<[kind |-> "message", of |-> error.message]>>
        \o LocationLines(IF error.location = None THEN <<>>
                          ELSE <<CHOOSE location \in error.location : TRUE>>, options)
        \o [k \in 1..Len(error.values) |-> [kind |-> "value", of |-> error.values[k]]]
        \o LocationLines(IF reverseStack THEN Reversed(stack) ELSE stack, options)

\* The lines written for the errors, in their order.
RECURSIVE TraceLines(_, _, _)
TraceLines(errors, options, reverseStack) ==
    IF errors = <<>> THEN <<>>
    ELSE ErrorLines(Head(errors), options, reverseStack)
         \o TraceLines(Tail(errors), options, reverseStack)

\* Trace::eprint: the chain is reversed, and each stack, unless
\* options.reverse.
EprintLines(error, options) ==
    TraceLines(IF ~options.reverse THEN Reversed(error) ELSE error, options,
               ~options.reverse)

\* Display for Trace: the chain is reversed, and each stack, if
\* options.reverse.
DisplayLines(error, options) ==
    TraceLines(IF options.reverse THEN Reversed(error) ELSE error, options,
               options.reverse)

\* error.trace(&options)
MakeTrace(error, options) ==
    /\ trace = NoTrace
    /\ trace' = [NoTrace EXCEPT !.error = error, !.options = options]
    /\ UNCHANGED <<builds, build_children, committed, now, last, messenger, subs,
                   reader, emitted, remotes, requests, database, getter, writers,
                   http, dependency, task>>

\* trace.eprint()
Eprint ==
    /\ trace.error # <<>>
    /\ trace.eprinted = None
    /\ trace' = [trace EXCEPT !.eprinted = Some(EprintLines(trace.error, trace.options))]
    /\ UNCHANGED <<builds, build_children, committed, now, last, messenger, subs,
                   reader, emitted, remotes, requests, database, getter, writers,
                   http, dependency, task>>

\* trace.to_string()
Display ==
    /\ trace.error # <<>>
    /\ trace.displayed = None
    /\ trace' = [trace EXCEPT
           !.displayed = Some(DisplayLines(trace.error, trace.options))]
    /\ UNCHANGED <<builds, build_children, committed, now, last, messenger, subs,
                   reader, emitted, remotes, requests, database, getter, writers,
                   http, dependency, task>>

(***************************************************************************)
(* tangram_client::Dependency: its Display and FromStr implementations.     *)
(* A string is the sequence of its characters; an id is written as one      *)
(* character, and the JSON text of a dependency as `{` and its fields.      *)
(***************************************************************************)
\* The longest name of the dependencies of the model.
MaxName == 3

\* No dependency was made.
NoDependency == [value |-> None, string |-> None, parsed |-> None]

\* The Dependency values: an id, a name over the characters a, @ and ., a
\* path that starts with a normal component or with a parent component, a
\* version, each optional.
Dependencies ==
    [id : {None, Some(<<"dir_1">>)},
     name : {None} \cup {Some(name) : name \in UNION {[1..n -> {"a", "@", "."}] :
                                                      n \in 1..MaxName}},
     path : {None, Some(<<"a">>), Some(<<".", ".", "/", "a">>)},
     version : {None, Some(<<"1">>)}]

\* <Path as FromStr>::from_str: a leading current-directory component is
\* dropped.
PathFromStr(value) ==
    IF Len(value) >= 2 /\ value[1] = "." /\ value[2] = "/"
    THEN SubSeq(value, 3, Len(value))
    ELSE value

\* <Dependency as Display>::fmt
DependencyToString(d) ==
    LET The(option) == CHOOSE x \in option : TRUE
    IN  CASE d.id # None /\ d.name = None /\ d.version = None /\ d.path = None ->
               The(d.id)
          [] d.id = None /\ d.name # None /\ d.version = None /\ d.path = None ->
               The(d.name)
          [] d.id = None /\ d.name # None /\ d.version # None /\ d.path = None ->
               The(d.name) \o <<"@">> \o The(d.version)
          [] d.id = None /\ d.name = None /\ d.version = None /\ d.path # None ->
               (IF The(d.path)[1] \notin {".", "/"} THEN <<".", "/">> ELSE <<>>)
               \o The(d.path)
          [] OTHER -> <<"{", d>>

\* <Dependency as FromStr>::from_str
DependencyFromStr(value) ==
    LET Default == [id |-> None, name |-> None, path |-> None, version |-> None]
        At == {i \in 1..Len(value) : value[i] = "@"}
        first == CHOOSE i \in At : \A j \in At : i <= j
    IN  IF value # <<>> /\ value[1] = "{"
        THEN [value[2] EXCEPT !.path = {PathFromStr(path) : path \in @}]
        ELSE IF value = <<"dir_1">>
        THEN [Default EXCEPT !.id = Some(value)]
        ELSE IF value # <<>> /\ value[1] \in {"/", "."}
        THEN [Default EXCEPT !.path = Some(PathFromStr(value))]
        ELSE IF At = {}
        THEN [Default EXCEPT !.name = Some(value)]
        ELSE [Default EXCEPT !.name = Some(SubSeq(value, 1, first - 1)),
                             !.version = Some(SubSeq(value, first + 1, Len(value)))]

\* A Dependency value is made.
NewDependency(d) ==
    /\ dependency = NoDependency
    /\ dependency' = [NoDependency EXCEPT !.value = Some(d)]
    /\ UNCHANGED <<builds, build_children, committed, now, last, messenger, subs,
                   reader, emitted, remotes, requests, database, getter, writers,
                   http, trace, task>>

\* dependency.to_string()
DependencyDisplay ==
    /\ dependency.value # None
    /\ dependency.string = None
    /\ dependency' = [dependency EXCEPT
           !.string = {DependencyToString(d) : d \in dependency.value}]
    /\ UNCHANGED <<builds, build_children, committed, now, last, messenger, subs,
                   reader, emitted, remotes, requests, database, getter, writers,
                   http, trace, task>>

\* string.parse::<Dependency>()
DependencyParse ==
    /\ dependency.string # None
    /\ dependency.parsed = None
    /\ dependency' = [dependency EXCEPT
           !.parsed = {DependencyFromStr(string) : string \in dependency.string}]
    /\ UNCHANGED <<builds, build_children, committed, now, last, messenger, subs,
                   reader, emitted, remotes, requests, database, getter, writers,
                   http, trace, task>>

(***************************************************************************)
(* The children stream as a task: the await points of                      *)
(* try_get_build_children_local and of the queries it runs, the lock of    *)
(* its State and the store connections it holds.  What the queries return  *)
(* is left open.                                                           *)
(***************************************************************************)
\* The most items read by the streams of this view.
MaxRead == 2

\* No stream: nothing is held.
NoTask == [pc |-> "closed", length |-> None, timeout |-> FALSE, read |-> 0,
           end |-> FALSE, inner_end |-> FALSE, locked |-> FALSE, connections |-> 0]

\* try_get_build_children_local is called: a position of SeekFrom::Start
\* needs no query, the others read the count of children first.
TaskOpen(counted, length, timeout) ==
    /\ task.pc = "closed"
    /\ task' = [NoTask EXCEPT !.pc = IF counted THEN "count_connection" ELSE "outer",
                              !.length = length, !.timeout = timeout]
    /\ UNCHANGED <<builds, build_children, committed, now, last, messenger, subs,
                   reader, emitted, remotes, requests, database, getter, writers,
                   http, trace, dependency>>

\* self.database.connection().await of the count, page and end queries: the
\* connection is held from here on, or the error is returned with `?`.
TaskConnect ==
    /\ task.pc \in {"count_connection", "page_connection", "end_connection"}
    /\ \/ task' = [task EXCEPT
              !.pc = CASE task.pc = "count_connection" -> "count_query"
                       [] task.pc = "page_connection" -> "page_query"
                       [] OTHER -> "end_query",
              !.connections = @ + 1]
       \/ task' = [task EXCEPT !.pc = "error", !.locked = FALSE]
    /\ UNCHANGED <<builds, build_children, committed, now, last, messenger, subs,
                   reader, emitted, remotes, requests, database, getter, writers,
                   http, trace, dependency>>

\* TaskQuery whose queries keep their connection when they succeed.
TaskQueryKeepingConnection ==
    /\ task.pc \in {"count_query", "page_query", "end_query"}
    /\ \/ task' = [task EXCEPT !.pc = "error", !.locked = FALSE, !.connections = @ - 1]
       \/ /\ task.pc = "count_query"
          /\ task' = [task EXCEPT !.pc = "outer"]
       \/ /\ task.pc = "page_query"
          /\ \E read \in {0, 1} :
                /\ read = 1 =>
                      /\ task.read < MaxRead
                      /\ \A l \in task.length : task.read < l
                /\ task' = [task EXCEPT
                       !.read = @ + read, !.locked = FALSE,
                       !.pc = IF read = 0 THEN "end_connection" ELSE "yield"]
       \/ /\ task.pc = "end_query"
          /\ \E end \in BOOLEAN :
                task' = [task EXCEPT
                    !.inner_end = end, !.pc = IF end THEN "yield" ELSE "outer"]
    /\ UNCHANGED <<builds, build_children, committed, now, last, messenger, subs,
                   reader, emitted, remotes, requests, database, getter, writers,
                   http, trace, dependency>>

\* The query of try_get_build_children_local_current_position, _inner or
\* _end completes: the connection is dropped, explicitly or by the `?` that
\* returns the error.  After the page query the State is updated and its
\* lock dropped; a non-empty chunk is yielded, an empty one goes to the end
\* query, whose result yields the empty chunk or ends the inner stream.
TaskQuery ==
    /\ task.pc \in {"count_query", "page_query", "end_query"}
    /\ \/ task' = [task EXCEPT !.pc = "error", !.locked = FALSE, !.connections = @ - 1]
       \/ /\ task.pc = "count_query"
          /\ task' = [task EXCEPT !.pc = "outer", !.connections = @ - 1]
       \/ /\ task.pc = "page_query"
          /\ \E read \in {0, 1} :
                /\ read = 1 =>
                      /\ task.read < MaxRead
                      /\ \A l \in task.length : task.read < l
                /\ task' = [task EXCEPT
                       !.read = @ + read, !.locked = FALSE, !.connections = @ - 1,
                       !.pc = IF read = 0 THEN "end_connection" ELSE "yield"]
       \/ /\ task.pc = "end_query"
          /\ \E end \in BOOLEAN :
                task' = [task EXCEPT
                    !.inner_end = end, !.connections = @ - 1,
                    !.pc = IF end THEN "yield" ELSE "outer"]
    /\ UNCHANGED <<builds, build_children, committed, now, last, messenger, subs,
                   reader, emitted, remotes, requests, database, getter, writers,
                   http, trace, dependency>>

\* The outer unfold: it ends when `end` is set or `length` items were read
\* (the lock is taken for the read of state.read only), waits in
\* events.next(), which the timeout ends, and reads the status, whose stream
\* holds a connection until the closure returns the inner stream.
TaskOuter ==
    /\ \/ /\ task.pc = "outer"
          /\ task' = [task EXCEPT
                 !.pc = IF task.end \/ (\E l \in task.length : task.read >= l)
                        THEN "done" ELSE "events"]
       \/ /\ task.pc = "events"
          /\ \/ task' = [task EXCEPT !.pc = "status", !.connections = @ + 1]
             \/ task.timeout /\ task' = [task EXCEPT !.pc = "done"]
       \/ /\ task.pc = "status"
          /\ \/ \E finished \in BOOLEAN :
                   task' = [task EXCEPT !.pc = "inner", !.end = finished,
                                        !.inner_end = FALSE, !.connections = @ - 1]
             \/ task' = [task EXCEPT !.pc = "error", !.connections = @ - 1]
    /\ UNCHANGED <<builds, build_children, committed, now, last, messenger, subs,
                   reader, emitted, remotes, requests, database, getter, writers,
                   http, trace, dependency>>

\* The inner unfold is polled, at first or after a chunk it yielded: it ends
\* when its `end` is set, and otherwise locks the State and starts the page
\* query.
TaskInner ==
    /\ task.pc \in {"inner", "yield"}
    /\ task' = IF task.inner_end
               THEN [task EXCEPT !.pc = "outer"]
               ELSE [task EXCEPT !.pc = "page_connection", !.locked = TRUE]
    /\ UNCHANGED <<builds, build_children, committed, now, last, messenger, subs,
                   reader, emitted, remotes, requests, database, getter, writers,
                   http, trace, dependency>>

(***************************************************************************)
(* The children stream beside its writers: one local build, created by the *)
(* target runtime, no remote.                                              *)
(***************************************************************************)
CreatedRow == [status |-> "created", outcome |-> None, created_at |-> 1,
               queued_at |-> None, started_at |-> None, finished_at |-> None]

\* The arguments the streams of this specification are opened with.
TailArgs ==
    {[Closed EXCEPT !.seek = seek, !.length = length, !.size = size,
                    !.timeout = timeout] :
        seek \in {[whence |-> "none", offset |-> 0], [whence |-> "start", offset |-> 0],
                  [whence |-> "start", offset |-> 1], [whence |-> "end", offset |-> -1]},
        length \in {None, Some(MaxLength)},
        size \in {None, Some(1)},
        timeout \in {None, Some("positive")}}

\* The outcome a status update carries.
OutcomeOf(status) == IF status = "finished" THEN Some("succeeded") ELSE None

Init ==
    /\ builds = [b \in {"bld_1"} |-> CreatedRow]
    /\ build_children = {}
    /\ committed = [b \in BuildIds |-> <<>>]
    /\ now = 1
    /\ last = Unobserved
    /\ messenger = "up"
    /\ subs = NoMessages
    /\ reader = Closed
    /\ emitted = <<>>
    /\ remotes = <<>>
    /\ requests = <<>>
    /\ database = "sqlite"
    /\ getter = Idle
    /\ writers = NoWriters
    /\ http = NoRequest
    /\ trace = NoTrace
    /\ dependency = NoDependency
    /\ task = NoTask

Next ==
    \/ \E c \in {"bld_2", "bld_3"} : AddBuildChild("bld_1", c)
    \/ \E new \in Statuses : UpdateStatus("bld_1", new, OutcomeOf(new))
    \/ \E arg \in TailArgs : TryGetBuildChildren("bld_1", arg)
    \/ ReaderSeek
    \/ TimeoutFires
    \/ ReaderEvent
    \/ ReaderStatus
    \/ ReaderInner
    \/ ReaderEnd

Spec == Init /\ [][Next]_vars

(***************************************************************************)
(* A tailing stream with no length and no timeout, polled by a consumer    *)
(* that keeps consuming: the runtime runs each step of the stream that is  *)
(* ready, and the interval ticks every 60 seconds.                         *)
(***************************************************************************)
LiveArgs ==
    {[Closed EXCEPT !.seek = seek, !.size = size] :
        seek \in {[whence |-> "none", offset |-> 0], [whence |-> "start", offset |-> 0],
                  [whence |-> "start", offset |-> 1]},
        size \in {None, Some(1)}}

NextLive ==
    \/ \E c \in {"bld_2", "bld_3"} : AddBuildChild("bld_1", c)
    \/ \E new \in Statuses : UpdateStatus("bld_1", new, OutcomeOf(new))
    \/ \E arg \in LiveArgs : TryGetBuildChildren("bld_1", arg)
    \/ ReaderSeek
    \/ ReaderEvent
    \/ ReaderStatus
    \/ ReaderInner
    \/ ReaderEnd

SpecLive ==
    /\ Init
    /\ [][NextLive]_vars
    /\ WF_vars(ReaderSeek)
    /\ WF_vars(ReaderEvent)
    /\ WF_vars(ReaderStatus)
    /\ WF_vars(ReaderInner)
    /\ WF_vars(ReaderEnd)

(***************************************************************************)
(* The writers of one local build, observed call by call.                  *)
(***************************************************************************)
InitWriters ==
    /\ builds = [b \in {"bld_1"} |-> CreatedRow]
    /\ build_children = {}
    /\ committed = [b \in BuildIds |-> <<>>]
    /\ now = 1
    /\ last = NoCall
    /\ messenger = "up"
    /\ subs = NoMessages
    /\ reader = Closed
    /\ emitted = <<>>
    /\ remotes = <<>>
    /\ requests = <<>>
    /\ database = "sqlite"
    /\ getter = Idle
    /\ writers = NoWriters
    /\ http = NoRequest
    /\ trace = NoTrace
    /\ dependency = NoDependency
    /\ task = NoTask

NextWriters ==
    \/ \E b \in {"bld_1", "bld_2"}, c \in BuildIds : AddBuildChild(b, c)
    \/ \E new \in Statuses : UpdateStatus("bld_1", new, OutcomeOf(new))
    \/ MessengerFlips

SpecWriters == InitWriters /\ [][NextWriters]_vars

(***************************************************************************)
(* The build status machine and the resolver: a server that starts with    *)
(* empty tables, beside its remotes.                                       *)
(***************************************************************************)
EmptyBuilds == [b \in {} |-> NoRow]

FinishedRow == [status |-> "finished", outcome |-> Some("succeeded"), created_at |-> 1,
                queued_at |-> None, started_at |-> Some(1), finished_at |-> Some(1)]

StartedRow == [status |-> "started", outcome |-> None, created_at |-> 1,
               queued_at |-> None, started_at |-> Some(1), finished_at |-> None]

\* A remote that holds no build, one that holds bld_1 finished with two
\* children, and one that holds it started with one child.
RemoteEmpty == [builds |-> EmptyBuilds, build_children |-> {}]

RemoteFinished ==
    [builds |-> [b \in {"bld_1"} |-> FinishedRow],
     build_children |-> ChildRows("bld_1", <<"bld_2", "bld_3">>)]

RemoteStarted ==
    [builds |-> [b \in {"bld_1"} |-> StartedRow],
     build_children |-> ChildRows("bld_1", <<"bld_2">>)]

RemoteConfigs ==
    {<<>>, <<RemoteFinished>>, <<RemoteStarted>>, <<RemoteEmpty, RemoteFinished>>,
     <<RemoteStarted, RemoteFinished>>}

\* The snapshots put_build is called with.
PutArgs ==
    {[id |-> "bld_1", children |-> children, status |-> status, outcome |-> outcome,
      created_at |-> 1, queued_at |-> None, started_at |-> None,
      finished_at |-> finished_at] :
        children \in {<<>>, <<"bld_2", "bld_3">>, <<"bld_3", "bld_2">>},
        status \in Statuses,
        outcome \in {None, Some("succeeded")},
        finished_at \in {None, Some(1)}}

\* The snapshots put_build is called with beside the resolver.
ValidPutArgs ==
    {[id |-> "bld_1", children |-> children, status |-> status,
      outcome |-> OutcomeOf(status), created_at |-> 1, queued_at |-> None,
      started_at |-> None,
      finished_at |-> IF status = "finished" THEN Some(1) ELSE None] :
        children \in {<<>>, <<"bld_3", "bld_2">>},
        status \in Statuses}

InitStatus ==
    /\ builds = EmptyBuilds
    /\ build_children = {}
    /\ committed = [b \in BuildIds |-> <<>>]
    /\ now = 1
    /\ last = NoCall
    /\ messenger = "up"
    /\ subs = NoMessages
    /\ reader = Closed
    /\ emitted = <<>>
    /\ remotes = <<>>
    /\ requests = <<>>
    /\ database = "sqlite"
    /\ getter = Idle
    /\ writers = NoWriters
    /\ http = NoRequest
    /\ trace = NoTrace
    /\ dependency = NoDependency
    /\ task = NoTask

NextStatus ==
    \/ \E arg \in PutArgs : PutBuild(arg)
    \/ \E new \in Statuses, outcome \in {None, Some("canceled")} :
          UpdateStatus("bld_1", new, outcome)
    \/ SetOutcome("bld_1", "failed")
    \/ ClockTick

SpecStatus == InitStatus /\ [][NextStatus]_vars

InitBuild ==
    /\ builds = EmptyBuilds
    /\ build_children = {}
    /\ committed = [b \in BuildIds |-> <<>>]
    /\ now = 1
    /\ last = Unobserved
    /\ messenger = "up"
    /\ subs = NoMessages
    /\ reader = Closed
    /\ emitted = <<>>
    /\ remotes \in RemoteConfigs
    /\ requests = <<>>
    /\ database \in {"sqlite", "postgres"}
    /\ getter = Idle
    /\ writers = NoWriters
    /\ http = NoRequest
    /\ trace = NoTrace
    /\ dependency = NoDependency
    /\ task = NoTask

NextBuild ==
    \/ \E arg \in ValidPutArgs : PutBuild(arg)
    \/ \E new \in Statuses : UpdateStatus("bld_1", new, OutcomeOf(new))
    \/ SetOutcome("bld_1", "failed")
    \/ TryGetBuild("bld_1")
    \/ GetBuildChildren
    \/ GetBuildInsert
    \/ GetBuildReturn
    \/ TryGetBuildChildren("bld_1", Closed)
    \/ ReaderDrop

SpecBuild == InitBuild /\ [][NextBuild]_vars

(***************************************************************************)
(* add_build_child on a server that holds bld_2 and not bld_1, beside its  *)
(* remotes.                                                                *)
(***************************************************************************)
ForwardConfigs ==
    {<<>>, <<RemoteEmpty>>, <<RemoteStarted>>, <<RemoteEmpty, RemoteStarted>>}

InitForward ==
    /\ builds = [b \in {"bld_2"} |-> CreatedRow]
    /\ build_children = {}
    /\ committed = [b \in BuildIds |-> <<>>]
    /\ now = 1
    /\ last = NoCall
    /\ messenger = "up"
    /\ subs = NoMessages
    /\ reader = Closed
    /\ emitted = <<>>
    /\ remotes \in ForwardConfigs
    /\ requests = <<>>
    /\ database = "sqlite"
    /\ getter = Idle
    /\ writers = NoWriters
    /\ http = NoRequest
    /\ trace = NoTrace
    /\ dependency = NoDependency
    /\ task = NoTask

NextForward ==
    \/ \E b \in {"bld_1", "bld_2"}, c \in BuildIds : AddBuildChild(b, c)
    \/ MessengerFlips

SpecForward == InitForward /\ [][NextForward]_vars

(***************************************************************************)
(* Two concurrent callers of add_build_child on one local build.           *)
(***************************************************************************)
InitConcurrent ==
    /\ builds = [b \in {"bld_1"} |-> CreatedRow]
    /\ build_children = {}
    /\ committed = [b \in BuildIds |-> <<>>]
    /\ now = 1
    /\ last = Unobserved
    /\ messenger = "up"
    /\ subs = NoMessages
    /\ reader = Closed
    /\ emitted = <<>>
    /\ remotes = <<>>
    /\ requests = <<>>
    /\ database \in {"sqlite", "postgres"}
    /\ getter = Idle
    /\ writers = [w \in Writers |-> NoWriter]
    /\ http = NoRequest
    /\ trace = NoTrace
    /\ dependency = NoDependency
    /\ task = NoTask

NextConcurrent ==
    \/ \E w \in Writers, c \in {"bld_2", "bld_3"} : InsertBegin(w, "bld_1", c)
    \/ \E w \in Writers : InsertWrite(w)
    \/ \E w \in Writers : InsertReturn(w)

SpecConcurrent == InitConcurrent /\ [][NextConcurrent]_vars

(***************************************************************************)
(* The resolver beside remotes whose requests may fail.                    *)
(***************************************************************************)
NextRemoteErrors ==
    \/ \E arg \in ValidPutArgs : PutBuild(arg)
    \/ TryGetBuild("bld_1")
    \/ TryGetBuildRemoteError("bld_1")
    \/ GetBuildChildren
    \/ GetBuildInsert
    \/ GetBuildReturn
    \/ TryGetBuildChildren("bld_1", Closed)
    \/ TryGetBuildChildrenRemoteError("bld_1", Closed)
    \/ ReaderDrop

SpecRemoteErrors == InitBuild /\ [][NextRemoteErrors]_vars

(***************************************************************************)
(* Streams opened at every kind of position, with no length and no timeout. *)
(***************************************************************************)
\* The signed offsets of SeekFrom::End and SeekFrom::Current.
OffsetArgs == {-2, -1, 0, 1, I64Max}

SeekSpecArgs ==
    {[Closed EXCEPT !.seek = seek] :
        seek \in SeekArgs \cup
                 {[whence |-> whence, offset |-> k] :
                     whence \in {"end", "current"}, k \in OffsetArgs}}

NextSeek ==
    \/ \E c \in {"bld_2", "bld_3"} : AddBuildChild("bld_1", c)
    \/ \E new \in Statuses : UpdateStatus("bld_1", new, OutcomeOf(new))
    \/ \E arg \in SeekSpecArgs : TryGetBuildChildren("bld_1", arg)
    \/ ReaderSeek
    \/ ReaderEvent
    \/ ReaderStatus
    \/ ReaderInner
    \/ ReaderEnd

SpecSeek == Init /\ [][NextSeek]_vars

(***************************************************************************)
(* A stream opened past the end of a build that has at most two children,   *)
(* polled by a consumer that keeps consuming.                               *)
(***************************************************************************)
\* The start position of the stream, past every child the build can have.
PastEnd == 3

PastEndArgs ==
    {[Closed EXCEPT !.seek = [whence |-> "start", offset |-> PastEnd], !.size = size] :
        size \in {None, Some(1)}}

NextPastEnd ==
    \/ \E c \in {"bld_2", "bld_3"} : AddBuildChild("bld_1", c)
    \/ \E new \in Statuses : UpdateStatus("bld_1", new, OutcomeOf(new))
    \/ \E arg \in PastEndArgs : TryGetBuildChildren("bld_1", arg)
    \/ ReaderSeek
    \/ ReaderEvent
    \/ ReaderStatus
    \/ ReaderInner
    \/ ReaderEnd

SpecPastEnd ==
    /\ Init
    /\ [][NextPastEnd]_vars
    /\ WF_vars(ReaderSeek)
    /\ WF_vars(ReaderEvent)
    /\ WF_vars(ReaderStatus)
    /\ WF_vars(ReaderInner)
    /\ WF_vars(ReaderEnd)

(***************************************************************************)
(* Streams opened with a length, a size and a timeout, polled by a consumer *)
(* that keeps consuming.                                                    *)
(***************************************************************************)
LimitArgs ==
    {[Closed EXCEPT !.seek = [whence |-> "start", offset |-> 0], !.length = length,
                    !.size = size, !.timeout = timeout] :
        length \in LengthArgs, size \in {None, Some(1), Some(2)},
        timeout \in TimeoutArgs}

NextLimits ==
    \/ \E c \in {"bld_2", "bld_3"} : AddBuildChild("bld_1", c)
    \/ \E new \in Statuses : UpdateStatus("bld_1", new, OutcomeOf(new))
    \/ \E arg \in LimitArgs : TryGetBuildChildren("bld_1", arg)
    \/ ReaderSeek
    \/ TimeoutFires
    \/ ReaderEvent
    \/ ReaderStatus
    \/ ReaderInner
    \/ ReaderEnd

SpecLimits ==
    /\ Init
    /\ [][NextLimits]_vars
    /\ WF_vars(ReaderSeek)
    /\ WF_vars(ReaderEvent)
    /\ WF_vars(ReaderStatus)
    /\ WF_vars(ReaderInner)
    /\ WF_vars(ReaderEnd)

(***************************************************************************)
(* One GET /builds/{id}/children request for the local build or for a      *)
(* build no server has, with no remote or one remote, beside the writers   *)
(* of the build and the stop of the server.                                *)
(***************************************************************************)
InitHttp ==
    /\ builds = [b \in {"bld_1"} |-> CreatedRow]
    /\ build_children = {}
    /\ committed = [b \in BuildIds |-> <<>>]
    /\ now = 1
    /\ last = Unobserved
    /\ messenger = "up"
    /\ subs = NoMessages
    /\ reader = Closed
    /\ emitted = <<>>
    /\ remotes \in {<<>>, <<RemoteEmpty>>}
    /\ requests = <<>>
    /\ database = "sqlite"
    /\ getter = Idle
    /\ writers = NoWriters
    /\ http = NoRequest
    /\ trace = NoTrace
    /\ dependency = NoDependency
    /\ task = NoTask

NextHttp ==
    \/ \E c \in {"bld_2", "bld_3"} : AddBuildChild("bld_1", c)
    \/ \E new \in Statuses : UpdateStatus("bld_1", new, OutcomeOf(new))
    \/ \E b \in {"bld_1", "bld_2"}, accept \in Accepts : HttpRequest(b, accept)
    \/ HttpCall
    \/ HttpCallSeek
    \/ HttpRespond
    \/ HttpStream
    \/ HttpPoll
    \/ HttpStop

SpecHttp ==
    /\ InitHttp
    /\ [][NextHttp]_vars
    /\ WF_vars(HttpPoll)

(***************************************************************************)
(* The trace of one error, written to stderr and to a string.              *)
(***************************************************************************)
NextTrace ==
    \/ \E error \in Errors, options \in TraceOptions : MakeTrace(error, options)
    \/ Eprint
    \/ Display

SpecTrace == Init /\ [][NextTrace]_vars

(***************************************************************************)
(* One children stream, seen as a task.                                    *)
(***************************************************************************)
NextAwait ==
    \/ \E counted, timeout \in BOOLEAN, length \in {None, Some(MaxLength)} :
          TaskOpen(counted, length, timeout)
    \/ TaskConnect
    \/ TaskQuery
    \/ TaskOuter
    \/ TaskInner

SpecAwait == Init /\ [][NextAwait]_vars

(***************************************************************************)
(* One Dependency is printed and the string parsed.                        *)
(***************************************************************************)
NextDependency ==
    \/ \E d \in Dependencies : NewDependency(d)
    \/ DependencyDisplay
    \/ DependencyParse

SpecDependency == Init /\ [][NextDependency]_vars

(***************************************************************************)
(* Properties.                                                             *)
(***************************************************************************)
\* The items of a sequence of chunks, concatenated.
RECURSIVE Flatten(_)
Flatten(chunks) ==
    IF chunks = <<>> THEN <<>> ELSE Head(chunks).items \o Flatten(Tail(chunks))

\* The children of build b stored at the ordinals from..from+n-1, each taken
\* from the row whose position is the ordinal.
StoredAt(b, from, n) ==
    [i \in 1..n |->
        IF \E r \in RowsIn(build_children, b) : r.position = from + i - 1
        THEN (CHOOSE r \in RowsIn(build_children, b) : r.position = from + i - 1).child
        ELSE "missing"]

\* The index of a child in a sequence of children, 0 when it is not in it.
IndexIn(children, c) ==
    IF \E i \in 1..Len(children) : children[i] = c
    THEN CHOOSE i \in 1..Len(children) : children[i] = c
    ELSE 0

\* C1: the chunks of a local children stream are contiguous from the resolved
\* start position: the first chunk is at P, each later chunk is at the
\* previous position plus the previous number of items, and the items of a
\* chunk are the children stored at the ordinals it covers (none twice, none
\* skipped).
ChunksContiguousFromStart ==
    /\ emitted # <<>> => emitted[1].position = reader.start
    /\ \A i \in 1..Len(emitted) :
          /\ i > 1 => emitted[i].position =
                          emitted[i - 1].position + Len(emitted[i - 1].items)
          /\ emitted[i].items =
                 StoredAt(reader.build, emitted[i].position, Len(emitted[i].items))

\* C1 witness: a stream that started after the first child was stored has
\* yielded two non-empty chunks.
TwoChunksEmitted ==
    /\ Len(emitted) >= 2
    /\ emitted[1].items # <<>>
    /\ emitted[2].items # <<>>
    /\ reader.seek.whence = "start"

\* C2: when a stream opened with no length and no timeout completes, the
\* items it has yielded are the children of the build from its start
\* position on.
CompleteAtEnd ==
    [][(reader.pc # "done" /\ reader'.pc = "done"
          /\ reader.length = None /\ reader.timeout = None)
       => Flatten(emitted') =
            SubSeq(ChildrenOf(build_children', reader.build), reader.start + 1,
                   CountIn(build_children', reader.build))]_vars

\* C3: the children a stream yields come in the order their inserts
\* committed: of two yielded children, the one yielded first was inserted
\* first.
EmittedInInsertionOrder ==
    LET items == Flatten(emitted)
    IN  \A i, j \in 1..Len(items) :
          i < j => /\ IndexIn(committed[reader.build], items[i]) > 0
                   /\ IndexIn(committed[reader.build], items[i])
                        < IndexIn(committed[reader.build], items[j])

\* C3 witness: two children were yielded, the second stored after the stream
\* was opened at the start.
TwoChildrenEmitted ==
    /\ Len(Flatten(emitted)) = 2
    /\ Len(emitted) = 2
    /\ reader.start = 0

\* C4: after add_build_child(B, C) on a local build there is exactly one row
\* (B, C), and a repeated call changes no row of the table.
AddBuildChildIdempotent ==
    /\ [](last.op = "add_build_child" /\ GetBuildExistsLocal(last.build)
           => Cardinality({r \in build_children :
                  r.build = last.build /\ r.child = last.child}) = 1)
    /\ [][(last'.op = "add_build_child"
            /\ ConflictsOnChild(build_children, last'.build, last'.child))
           => build_children' = build_children]_vars

\* C4 witness: a repeated add returned on a build that has other children.
RepeatedAddReturned ==
    /\ last.op = "add_build_child"
    /\ last.duplicate
    /\ last.result = "ok"
    /\ CountIn(build_children, last.build) >= 2

\* C5: the positions of the rows of every build are exactly 0..N-1.
PositionsDense ==
    \A b \in BuildIds :
        {r.position : r \in RowsIn(build_children, b)}
            = 0..(CountIn(build_children, b) - 1)

\* C5 witness: three children are stored and the last call was a repeated add.
ThreeChildrenAfterRepeat ==
    /\ CountIn(build_children, "bld_1") = 3
    /\ last.op = "add_build_child"
    /\ last.duplicate

\* C6: the rows of a finished build never change.
FinishedChildrenImmutable ==
    [][\A b \in DOMAIN builds :
          builds[b].status = "finished"
          => RowsIn(build_children', b) = RowsIn(build_children, b)]_vars

\* C7: the stored status of a build never decreases.
StatusNeverDecreases ==
    [][\A b \in DOMAIN builds :
          /\ b \in DOMAIN builds'
          /\ StatusRank(builds'[b].status) >= StatusRank(builds[b].status)]_vars

\* C7 witness: try_get_build has inserted the finished build of the remote.
RemoteBuildInserted ==
    /\ getter.pc = "returned"
    /\ getter.source = "remote"
    /\ getter.result = "some"
    /\ "bld_1" \in DOMAIN builds
    /\ builds["bld_1"] = FinishedRow
    /\ \E i \in 1..Len(requests) : requests[i].op = "try_get_build_children"

\* C8: update_status with a status lower than the stored one returns Invalid,
\* leaves the builds table as it is and publishes nothing.
RegressionRejected ==
    [][(last'.op = "update_status" /\ Regresses(last'.build, last'.status))
       => /\ last'.result = "invalid"
          /\ last'.published = None
          /\ builds' = builds
          /\ subs' = subs]_vars

\* C8 witness: update_status(Queued) was rejected on a build at Started whose
\* timestamps differ.
QueuedRejectedAtStarted ==
    /\ last.op = "update_status"
    /\ last.status = "queued"
    /\ last.result = "invalid"
    /\ "bld_1" \in DOMAIN builds
    /\ builds["bld_1"].status = "started"
    /\ builds["bld_1"].started_at # Some(builds["bld_1"].created_at)

\* C9: in every reachable state, put_build applied twice with the same arg
\* leaves both tables as the first application left them.
PutBuildIdempotent ==
    \A arg \in PutArgs :
        PutBuildTables(PutBuildTables(Tables, arg), arg) = PutBuildTables(Tables, arg)

\* C9 witness: a put_build of a snapshot with two children was applied again.
PutBuildRepeated ==
    /\ last.op = "put_build"
    /\ last.result = "ok"
    /\ last.duplicate
    /\ CountIn(build_children, "bld_1") = 2

\* The remotes that hold a build.
Holders(id) == {i \in 1..Len(remotes) : id \in DOMAIN remotes[i].builds}

\* The first of them in the configured order.
FirstHolder(id) == CHOOSE i \in Holders(id) : \A j \in Holders(id) : i <= j

\* C10: a read that misses locally returns the value of the first remote, in
\* the configured order, that has the build, and None only if none has it.
FirstHolderWins ==
    /\ (getter.pc = "returned" /\ getter.source # "local")
       => IF Holders(getter.id) = {}
          THEN getter.result = "none"
          ELSE /\ getter.result = "some"
               /\ getter.output = remotes[FirstHolder(getter.id)].builds[getter.id]
    /\ reader.pc \in {"none", "remote"}
       => IF Holders(reader.build) = {}
          THEN reader.pc = "none"
          ELSE reader.pc = "remote" /\ reader.source = FirstHolder(reader.build)

\* The remotes whose request of a read failed.
FailedRemotes ==
    {requests[k].remote : k \in {i \in 1..Len(requests) :
        requests[i].op \in {"try_get_build_failed", "try_get_build_children_failed"}}}

\* C11: a read returns an error of a remote only if every configured remote
\* failed: the error of a single remote is taken as a miss and the next remote
\* is consulted.
RemoteErrorsTolerated ==
    /\ (getter.pc = "returned" /\ getter.source = "remote" /\ getter.result = "error")
       => FailedRemotes = 1..Len(remotes)
    /\ reader.pc = "error" => FailedRemotes = 1..Len(remotes)

\* C12: the local insert of a remote's finished build stores the full children
\* list of the remote, in the remote's order.
FullChildrenInserted ==
    [][(getter.pc = "insert" /\ getter'.pc = "returned")
       => ChildrenOf(build_children', getter.id)
            = ChildrenOf(remotes[1].build_children, getter.id)]_vars

\* C13: a build of the remote that is not finished is returned to the caller
\* and never inserted: the call leaves both local tables as they are, and only
\* a finished build reaches the insert.
UnfinishedNotInserted ==
    /\ [](getter.pc \in {"children", "insert"} => getter.output.status = "finished")
    /\ [][(getter.pc = "idle" /\ getter'.pc = "returned"
            /\ getter'.source = "remote" /\ getter'.result = "some")
           => /\ getter'.output = remotes[1].builds[getter'.id]
              /\ getter'.output.status # "finished"
              /\ builds' = builds
              /\ build_children' = build_children]_vars

\* C13 witness: the started build of the remote was returned and the local
\* store does not know the build.
UnfinishedRemoteReturned ==
    /\ getter.pc = "returned"
    /\ getter.source = "remote"
    /\ getter.result = "some"
    /\ getter.output = StartedRow
    /\ "bld_1" \notin DOMAIN builds
    /\ build_children = {}

\* C14: a read of a build the local store holds sends no request to a remote
\* and returns the local row, and the row try_get_build inserts is the build
\* it returned, so the reads after it are local and return that build.
LocalReadsStayLocal ==
    [][/\ (getter.pc = "idle" /\ getter'.pc # "idle" /\ getter'.id \in DOMAIN builds)
          => /\ requests' = requests
             /\ getter'.pc = "returned"
             /\ getter'.source = "local"
             /\ getter'.result = "some"
             /\ getter'.output = builds[getter'.id]
       /\ (reader.pc = "closed" /\ reader'.pc # "closed"
             /\ reader'.build \in DOMAIN builds)
          => requests' = requests /\ reader'.pc = "seek"
       /\ (getter.pc = "insert" /\ getter'.pc = "returned")
          => /\ getter'.id \in DOMAIN builds'
             /\ builds'[getter'.id] = getter'.output]_vars

\* C14 witness: after the read that fetched the finished build from the remote
\* and its children, a second read returned the build from the local store.
SecondReadLocal ==
    /\ getter.pc = "returned"
    /\ getter.source = "local"
    /\ getter.output = FinishedRow
    /\ Len(requests) = 2
    /\ requests[1].op = "try_get_build"
    /\ requests[2].op = "try_get_build_children"

\* C15: an add_build_child on a local build reports success and its row is
\* stored, whether or not the publish that follows the insert failed.
PublishFailureNonFatal ==
    (last.op = "add_build_child" /\ last.build \in DOMAIN builds)
    => /\ last.result = "ok"
       /\ ConflictsOnChild(build_children, last.build, last.child)

\* C16: every add_build_child sent to a remote directly follows the push of
\* the child to that remote, the first one; a call whose push failed sends
\* nothing after the push, changes nothing on the remote and returns the error.
PushBeforeForward ==
    /\ [](\A i \in 1..Len(requests) :
            requests[i].op = "add_build_child"
            => /\ i > 1
               /\ requests[i - 1].op = "push"
               /\ requests[i - 1].remote = 1
               /\ requests[i].remote = 1)
    /\ [][(last'.op = "add_build_child" /\ requests' # requests)
           => /\ requests'[Len(requests) + 1].op \in {"push", "push_failed"}
              /\ requests'[Len(requests) + 1].remote = 1
              /\ requests'[Len(requests) + 1].build = last'.child
              /\ requests'[Len(requests) + 1].op = "push_failed"
                 => /\ Len(requests') = Len(requests) + 1
                    /\ last'.result = "error"
                    /\ remotes' = remotes]_vars

\* C16 witness: after a call whose push failed, a call pushed the child and
\* was forwarded to the remote, which stored the child.
ForwardedAfterPush ==
    /\ last.op = "add_build_child"
    /\ last.result = "ok"
    /\ last.build \notin DOMAIN builds
    /\ Len(requests) = 3
    /\ requests[1].op = "push_failed"
    /\ requests[2].op = "push"
    /\ requests[3].op = "add_build_child"
    /\ ConflictsOnChild(remotes[1].build_children, last.build, last.child)

\* C17 as stated: add_build_child on a build the local store does not know
\* returns NotFound, inserts no local row and publishes nothing.
UnknownBuildNotFound ==
    [][(last'.op = "add_build_child" /\ last'.build \notin DOMAIN builds)
       => /\ last'.result = "not_found"
          /\ build_children' = build_children
          /\ last'.published = None
          /\ subs' = subs]_vars

\* C17 amended: add_build_child on a build the local store does not know
\* inserts no local row and publishes nothing; it returns the error for an
\* unknown build when no remote is configured, and otherwise what the push to
\* the first remote and the forwarded call give. (A step that leaves the
\* messenger as it is and has such a call in `last` is that call.)
UnknownBuildNotLocal ==
    [][(last'.op = "add_build_child" /\ last'.build \notin DOMAIN builds
          /\ messenger' = messenger)
       => /\ build_children' = build_children
          /\ last'.published = None
          /\ subs' = subs
          /\ IF remotes = <<>>
             THEN last'.result = "not_found" /\ requests' = requests
             ELSE /\ last'.result \in {"ok", "error"}
                  /\ requests' # requests
                  /\ requests'[Len(requests) + 1].op \in {"push", "push_failed"}]_vars

\* C17 witness: the add on the unknown build was forwarded and returned Ok
\* while the local table holds rows of the local build only.
UnknownBuildForwarded ==
    /\ last.op = "add_build_child"
    /\ last.build = "bld_1"
    /\ last.result = "ok"
    /\ RowsIn(build_children, "bld_1") = {}
    /\ RowsIn(build_children, "bld_2") # {}

\* C18: two concurrent add_build_child calls on one build both succeed, and
\* the rows they leave have distinct positions with no hole: no call fails and
\* no position is given twice.
ConcurrentAddsSerialized ==
    /\ \A w \in Writers : writers[w].pc = "returned" => writers[w].result = "ok"
    /\ \A b \in BuildIds :
          /\ \A r, q \in RowsIn(build_children, b) :
                r.position = q.position => r = q
          /\ \A r \in RowsIn(build_children, b) :
                r.position < CountIn(build_children, b)

\* The stream is open and its start position resolved.
Tailing == reader.pc \in {"wait", "status", "inner", "endcheck"}

\* The child is stored for the build of the stream at or after its start.
StoredFromStart(c) ==
    \E r \in RowsIn(build_children, reader.build) :
        r.child = c /\ r.position >= reader.start

\* The stream has yielded the child.
Yielded(c) ==
    \E i \in 1..Len(emitted) : \E j \in 1..Len(emitted[i].items) :
        emitted[i].items[j] = c

\* C19: whatever messages are dropped, a tailing stream with no timeout whose
\* steps and interval tick are scheduled fairly eventually yields every child
\* stored at or after its start position, and completes once the build is
\* finished.
TailEventuallyCatchesUp ==
    /\ \A c \in {"bld_2", "bld_3"} :
          (Tailing /\ StoredFromStart(c)) ~> Yielded(c)
    /\ (Tailing /\ builds[reader.build].status = "finished") ~> (reader.pc = "done")

FromEndClamps ==
    [][(reader.pc = "seek" /\ reader'.pc # "seek"
          /\ reader.seek.whence = "end" /\ reader.seek.offset <= 0)
       => /\ reader'.pc # "invalid"
          /\ LET target == CountIn(build_children, reader.build) + reader.seek.offset
             IN  reader'.start = IF target >= 0 THEN target ELSE 0]_vars

\* C23: for FromEnd(k) and FromCurrent(k) alike, with count the number of
\* children when the position is resolved, the call fails with the invalid
\* offset error and gives no stream when count + k is negative or exceeds the
\* largest i64, and otherwise the stream starts at exactly count + k.
SeekArithmetic ==
    [][(reader.pc = "seek" /\ reader'.pc # "seek"
          /\ reader.seek.whence \in {"end", "current"})
       => LET target == CountIn(build_children, reader.build) + reader.seek.offset
          IN  IF target < 0 \/ target > I64Max
              THEN /\ reader'.pc = "invalid"
                   /\ emitted' = <<>>
                   /\ subs' = NoMessages
              ELSE /\ reader'.pc \in {"wait", "done"}
                   /\ reader'.start = target
                   /\ reader'.position = target]_vars

\* A stream opened at FromEnd(-1) started at ordinal 1 of two children and
\* yielded the last child as its first chunk.
LastChildFromEnd ==
    /\ reader.seek = [whence |-> "end", offset |-> -1]
    /\ reader.start = 1
    /\ Len(emitted) >= 1
    /\ emitted[1].position = 1
    /\ Len(emitted[1].items) = 1

\* The stream was opened at Start(PastEnd).
OpenedPastEnd ==
    /\ reader.pc \notin {"closed", "seek"}
    /\ reader.seek = [whence |-> "start", offset |-> PastEnd]

\* C21 as stated: a stream opened at Start(P) on a build that never has P
\* children receives no chunk at all, and completes once the build is
\* finished.
PastEndNoChunks ==
    /\ [](OpenedPastEnd => emitted = <<>>)
    /\ (Tailing /\ builds[reader.build].status = "finished") ~> (reader.pc = "done")

\* C21 amended: a stream opened at Start(P) on a build that never has P
\* children receives no child: every chunk it receives is an empty chunk at
\* position P, yielded only once the build is finished, and the stream
\* completes once the build is finished.
PastEndOnlyTerminators ==
    /\ [](OpenedPastEnd =>
            /\ \A i \in 1..Len(emitted) :
                  /\ emitted[i].items = <<>>
                  /\ emitted[i].position = reader.seek.offset
            /\ emitted # <<>> => builds[reader.build].status = "finished")
    /\ (Tailing /\ builds[reader.build].status = "finished") ~> (reader.pc = "done")

\* The stream opened past the two children of a finished build completed
\* after one empty chunk.
PastEndCompleted ==
    /\ OpenedPastEnd
    /\ reader.pc = "done"
    /\ CountIn(build_children, reader.build) = 2
    /\ builds[reader.build].status = "finished"
    /\ emitted = <<[position |-> PastEnd, items |-> <<>>]>>

\* C24: a stream opened with length = 0 is complete as soon as it is
\* returned, whatever the status and the children of the build: it waits for
\* no event and yields no chunk, not even an empty one.
ZeroLengthCompletes ==
    /\ [](reader.length = Some(0) /\ reader.pc \notin {"closed", "seek"}
            => reader.pc = "done" /\ emitted = <<>>)
    /\ (reader.length = Some(0) /\ reader.pc = "seek") ~> (reader.pc = "done")

\* A stream of length 0 completed on a started build with two children.
ZeroLengthOnStarted ==
    /\ reader.length = Some(0)
    /\ reader.pc = "done"
    /\ builds[reader.build].status = "started"
    /\ CountIn(build_children, reader.build) = 2

\* The stream has a timeout and the timeout has elapsed.
TimedOut == reader.timeout # None /\ reader.fired

\* C25: a stream opened with timeout = 0 has timed out from the start: it
\* processes the synthetic first event, yielding what the store holds, then
\* completes without processing another event, whatever the status of the
\* build.  In general once the timeout has elapsed the next wait for an event
\* completes the stream with nothing yielded and no error.
TimeoutEndsGracefully ==
    /\ [](Tailing /\ reader.timeout = Some("zero") => reader.fired)
    /\ [][(Tailing /\ TimedOut /\ reader.pc = "wait" /\ ~reader.first
             /\ reader' # reader)
          => reader'.pc = "done" /\ emitted' = emitted]_vars
    /\ [](reader.timeout # None => reader.pc \notin {"error", "panic", "invalid"})
    /\ (Tailing /\ TimedOut) ~> (reader.pc = "done")

\* A stream with timeout = 0 yielded the two children of a build that is not
\* finished and completed.
ZeroTimeoutCompleted ==
    /\ reader.timeout = Some("zero")
    /\ reader.pc = "done"
    /\ builds[reader.build].status = "started"
    /\ Len(Flatten(emitted)) = 2

\* C26: with length = L and size = S (10 when absent) every chunk has at most
\* S items, the items yielded and the read counter never exceed L, the page
\* size never underflows, the stream never waits for an event once L items
\* are read, and it then completes.
LengthAndSizeBound ==
    /\ [](reader.pc \notin {"closed", "seek"} =>
            /\ \A i \in 1..Len(emitted) :
                  Len(emitted[i].items)
                    <= (IF reader.size = None THEN 10 ELSE CHOOSE n \in reader.size : TRUE)
            /\ \A l \in reader.length :
                  /\ Len(Flatten(emitted)) <= l
                  /\ reader.read <= l
                  /\ reader.read = Len(Flatten(emitted))
                  /\ reader.pc = "wait" => reader.read < l
            /\ reader.pc # "panic")
    /\ \A l \in 0..(MaxLength + 1) :
          (Tailing /\ reader.length = Some(l) /\ reader.read = l) ~> (reader.pc = "done")

\* A stream with length 1 and size 2 on a build with two children yielded
\* one child and completed, the build not being finished.
LengthReached ==
    /\ reader.length = Some(1)
    /\ reader.size = Some(2)
    /\ reader.pc = "done"
    /\ CountIn(build_children, reader.build) = 2
    /\ builds[reader.build].status # "finished"
    /\ Len(emitted) = 1
    /\ Len(emitted[1].items) = 1

\* C30: try_get_build_local gives the same answer on both back-ends: for an
\* id with no row in builds it returns Ok(None) on sqlite and on postgres
\* alike, so try_get_build returns no local error and asks the remote when
\* there is one; for an id with a row it returns the row.
BackendsAgreeOnLocalLookup ==
    [][(getter.pc = "idle" /\ getter'.pc # "idle")
       => IF getter'.id \in DOMAIN builds
          THEN /\ getter'.result = "some"
               /\ getter'.source = "local"
               /\ getter'.output = builds[getter'.id]
          ELSE /\ ~(getter'.result = "error" /\ getter'.source = "local")
               /\ TheRemote # None =>
                     /\ Len(requests') = Len(requests) + 1
                     /\ requests'[Len(requests')].build = getter'.id]_vars

\* The chunks the body of the response took from the stream, in order.
TakenChunks == SubSeq(emitted, 1, http.taken)

\* C27: once the stop flag is true, the next poll of the body of a children
\* response ends it: no further chunk is taken from the stream, no further
\* event is written, and the body does end, whatever the status of the build.
StopEndsStreams ==
    /\ [][(http.pc = "open" /\ http.stop /\ http' # http)
          => /\ http'.pc = "ended"
             /\ http'.taken = http.taken
             /\ http'.events = http.events]_vars
    /\ (http.pc = "open" /\ http.stop) ~> (http.pc = "ended")

\* An event stream that had delivered one child was ended by the stop flag
\* while the build was not finished.
StoppedWhileTailing ==
    /\ http.pc = "ended"
    /\ http.cut
    /\ http.accept = "sse"
    /\ Len(http.events) = 1
    /\ builds[http.build].status # "finished"

\* C28: with no Accept header, */* or application/json the body is one JSON
\* array holding the items of the chunks of the stream in the order they
\* were yielded, an empty chunk adding nothing; with text/event-stream the
\* body holds one event per chunk of the stream, in that order.  Unless the
\* server stops, the chunks of the stream are all the chunks it yields.
BodyCarriesTheStream ==
    /\ (http.pc = "ended" /\ http.status = 200 /\ http.accept \in JsonAccepts)
          => /\ http.array = Some(Flatten(TakenChunks))
             /\ http.events = <<>>
    /\ (http.status = 200 /\ http.accept = "sse")
          => /\ http.events = TakenChunks
             /\ http.array = None
    /\ (http.pc = "ended" /\ http.status = 200 /\ ~http.cut)
          => http.taken = Len(emitted)
    /\ (http.pc = "open" /\ http.accept \in JsonAccepts)
          => http.array = None /\ http.events = <<>>

\* A JSON response carried the two children of a finished build, yielded in
\* two chunks followed by an empty one.
TwoChildrenInArray ==
    /\ http.pc = "ended"
    /\ http.accept = "json"
    /\ ~http.cut
    /\ Len(emitted) = 3
    /\ emitted[3].items = <<>>
    /\ \E c, d \in {"bld_2", "bld_3"} : c # d /\ http.array = Some(<<c, d>>)

\* C29: a request whose Accept header is present and is none of */*,
\* application/json and text/event-stream is answered with 400, and a
\* request for a build that neither this server nor a remote has is answered
\* with 404.
AcceptAndMissingAnswered ==
    /\ (http.status # 0 /\ http.accept \in {"other", "malformed"})
          => http.status = 400
    /\ (http.status # 0 /\ http.accept \in JsonAccepts \cup {"sse"}
          /\ http.build \notin DOMAIN builds
          /\ \A i \in 1..Len(remotes) : http.build \notin DOMAIN remotes[i].builds
          /\ \A j \in 1..Len(requests) : requests[j].op # "try_get_build_children_failed")
          => http.status = 404

\* C31: the trace of an error whose source chain is e0 -> ... -> en lists
\* the errors leaf first, en, ..., e0, with reverse = false, and outermost
\* first, e0, ..., en, with reverse = true, when it is written by eprint and
\* when it is written by Display.
TraceLeafFirstByDefault ==
    LET n == Len(trace.error)
        IsMessage(line) == line.kind = "message"
    IN  \A lines \in trace.eprinted \cup trace.displayed :
            LET messages == SelectSeq(lines, IsMessage)
            IN  [k \in 1..Len(messages) |-> messages[k].of]
                  = IF trace.options.reverse
                    THEN [k \in 1..n |-> k - 1]
                    ELSE [k \in 1..n |-> n - k]


\* C36: for one error and one TraceOptions, eprint and Display write the
\* errors of the source chain in the same order and the stack locations of
\* each error in the same order.
EprintAgreesWithDisplay ==
    \A printed \in trace.eprinted : \A displayed \in trace.displayed :
        printed = displayed


\* C35: a children stream yields at most one chunk with no items, and a chunk
\* with no items is the last chunk it yields.
SingleTerminatorLast ==
    \A i \in 1..Len(emitted) : emitted[i].items = <<>> => i = Len(emitted)


\* C33: whenever the stream is suspended in a store query, a connection
\* acquisition or events.next(), the lock of its State is not held.
LockNotHeldAcrossAwaits ==
    task.pc \in {"count_connection", "count_query", "page_connection", "page_query",
                 "end_connection", "end_query", "events", "status"}
      => ~task.locked

\* C34: while the stream waits in events.next() it holds no store
\* connection, and it holds none once it has ended, normally or with an
\* error; it holds one only inside a query.
NoConnectionWhileWaiting ==
    /\ task.pc \in {"events", "done", "error"} => task.connections = 0
    /\ task.connections \in {0, 1}
    /\ task.connections = 1
         <=> task.pc \in {"count_query", "page_query", "end_query", "status"}

\* The stream waits for an event after it ran the count, status, page and
\* end queries and yielded a chunk.
WaitingAfterQueries ==
    /\ task.pc = "events"
    /\ task.read = 1
    /\ task.connections = 0


\* C32: for every Dependency d, d.to_string().parse() succeeds and gives a
\* Dependency equal to d.
DependencyRoundTrip ==
    \A parsed \in dependency.parsed : \A d \in dependency.value : parsed = d

====
